---- MODULE Spec2Model ----
(***************************************************************************)
(* Schema synthesis, registry and validation engine of huma (v2).         *)
(*                                                                         *)
(* Schema objects live in a heap (a sequence of records); a pointer is an  *)
(* index of the heap and 0 is the nil pointer.  Optional numbers (pointer  *)
(* to int or float64) are sequences of length 0 (nil) or 1.  reflect.Type  *)
(* values are names of the type table GoTypes.  Tags other than json are   *)
(* strings; the json tag is a sequence of tokens in which "," is a token.  *)
(***************************************************************************)
EXTENDS Integers, Sequences, FiniteSets, TLC

VARIABLES heap, reg, cur, lastCall, fault, ncalls, observed, types,
          pb, res, lastValidate, prevValidate, nvalidate, callers, syntheses, runs,
          sent

vars == <<heap, reg, cur, lastCall, fault, ncalls, observed, types, pb, res, lastValidate,
          prevValidate, nvalidate, callers, syntheses, runs, sent>>

(***************************************************************************)
(* Bounds of the model.                                                    *)
(***************************************************************************)
\* the Schema calls made on the registry
MaxCalls == 2

\* the Schema calls a test makes on its registry before it validates
MaxSetup == 1

\* the iterations of the validation loop
MaxValidate == 2

\* the depth of recursion the call stack holds
MaxDepth == 6

\* the number of concurrent callers of Registry.Schema
MaxCallers == 2

(***************************************************************************)
(* JSON Schema type constants (schema.go 23-30).                           *)
(***************************************************************************)
TypeBoolean == "boolean"

TypeInteger == "integer"

TypeNumber == "number"

TypeString == "string"

TypeArray == "array"

TypeObject == "object"

(***************************************************************************)
(* reflect: the type table.  A field is a reflect.StructField.             *)
(***************************************************************************)
NoTag == [doc |-> ""]

\* `json:"value"`, `json:"value,omitempty"`
Json(name) == [json |-> <<name>>]

JsonOmit(name) == [json |-> <<name, ",", "omitempty">>]

Fld(name, typ, tag) ==
    [Name |-> name, Type |-> typ, Anonymous |-> FALSE, Exported |-> TRUE, Tag |-> tag]

\* a field whose name starts with a lower-case letter
Hid(name, typ) ==
    [Name |-> name, Type |-> typ, Anonymous |-> FALSE, Exported |-> FALSE, Tag |-> NoTag]

Emb(name, typ) ==
    [Name |-> name, Type |-> typ, Anonymous |-> TRUE, Exported |-> TRUE, Tag |-> NoTag]

Prim(kind) == [Kind |-> kind, Name |-> kind, Elem |-> "", Len |-> 0, Fields |-> <<>>]

Comp(kind, elem) == [Kind |-> kind, Name |-> "", Elem |-> elem, Len |-> 0, Fields |-> <<>>]

Struct(name, fields) ==
    [Kind |-> "struct", Name |-> name, Elem |-> "", Len |-> 0, Fields |-> fields]

GoTypes ==
    [ bool      |-> Prim("bool"),
      int       |-> Prim("int"),
      string    |-> Prim("string"),
      any       |-> [Kind |-> "interface", Name |-> "", Elem |-> "", Len |-> 0, Fields |-> <<>>],
      func      |-> [Kind |-> "func", Name |-> "", Elem |-> "", Len |-> 0, Fields |-> <<>>],
      MapInt    |-> Comp("map", "int"),
      PtrNode   |-> Comp("ptr", "Node"),
      PtrLoop   |-> Comp("ptr", "Loop"),
      Items     |-> Comp("slice", "Item"),
      Trees     |-> Comp("slice", "Tree"),
      Dirs      |-> Comp("map", "Dir"),
      \* struct { Value string `json:"value"` }
      Item      |-> Struct("", << Fld("Value", "string", Json("value")) >>),
      \* struct { Items []struct{...} `json:"items"` }
      Nested    |-> Struct("", << Fld("Items", "Items", Json("items")) >>),
      \* struct { Value string `json:"value" readOnly:"true"` }
      RO        |-> Struct("", << Fld("Value", "string",
                                      [json |-> <<"value">>, readOnly |-> "true"]) >>),
      \* struct { Value string `json:"value,omitempty" readOnly:"true"` }
      ROOpt     |-> Struct("", << Fld("Value", "string",
                                      [json |-> <<"value", ",", "omitempty">>,
                                       readOnly |-> "true"]) >>),
      \* struct { Value string `json:"value" writeOnly:"true"` }
      WO        |-> Struct("", << Fld("Value", "string",
                                      [json |-> <<"value">>, writeOnly |-> "true"]) >>),
      \* type Form struct { Count int `json:"count" minimum:"1"`
      \*                    Value string `json:"value,omitempty" minLength:"1"`
      \*                    Skip string `json:"-"`
      \*                    Hook func() `json:"hook"` }
      Form      |-> Struct("Form",
                           << Fld("Count", "int", [json |-> <<"count">>, minimum |-> "1"]),
                              Fld("Value", "string",
                                  [json |-> <<"value", ",", "omitempty">>, minLength |-> "1"]),
                              Fld("Skip", "string", Json("-")),
                              Fld("Hook", "func", Json("hook")) >>),
      \* type Node struct { Value string `json:"value"`
      \*                    Next *Node `json:"next,omitempty"` }
      Node      |-> Struct("Node",
                           << Fld("Value", "string", Json("value")),
                              Fld("Next", "PtrNode", JsonOmit("next")) >>),
      \* type Tree struct { Children []Tree `json:"children"` }
      Tree      |-> Struct("Tree", << Fld("Children", "Trees", Json("children")) >>),
      \* type Dir struct { Sub map[string]Dir `json:"sub"` }
      Dir       |-> Struct("Dir", << Fld("Sub", "Dirs", Json("sub")) >>),
      \* type Loop struct { *Loop
      \*                    Value string `json:"value"` }
      Loop      |-> Struct("Loop",
                           << Emb("Loop", "PtrLoop"),
                              Fld("Value", "string", Json("value")) >>),
      uint      |-> Prim("uint"),
      Pair      |-> [Kind |-> "array", Name |-> "", Elem |-> "int", Len |-> 2, Fields |-> <<>>],
      Strings   |-> Comp("slice", "string"),
      \* struct { Count uint `json:"count"`
      \*          Pair [2]int `json:"pair"` }
      Sized     |-> Struct("", << Fld("Count", "uint", Json("count")),
                                  Fld("Pair", "Pair", Json("pair")) >>),
      \* struct { Item struct{...} `json:"item" doc:"the item" deprecated:"true"` }
      Holder    |-> Struct("", << Fld("Item", "Item",
                                      [json |-> <<"item">>, doc |-> "the item",
                                       deprecated |-> "true"]) >>),
      \* type Deep struct { X string `json:"x" doc:"deep"` }
      Deep      |-> Struct("Deep", << Fld("X", "string",
                                          [json |-> <<"x">>, doc |-> "deep"]) >>),
      \* type Mid struct { Deep }
      Mid       |-> Struct("Mid", << Emb("Deep", "Deep") >>),
      \* type Near struct { X int `json:"x" doc:"near"` }
      Near      |-> Struct("Near", << Fld("X", "int", [json |-> <<"x">>, doc |-> "near"]) >>),
      \* type Outer struct { Mid; Near }
      Outer     |-> Struct("Outer", << Emb("Mid", "Mid"), Emb("Near", "Near") >>),
      \* struct { Value string `json:"value" enum:"one,two"`
      \*          Tags []string `json:"tags,omitempty" enum:"one,two"` }
      Choice    |-> Struct("", << Fld("Value", "string",
                                      [json |-> <<"value">>, enum |-> <<"one", ",", "two">>]),
                                  Fld("Tags", "Strings",
                                      [json |-> <<"tags", ",", "omitempty">>,
                                       enum |-> <<"one", ",", "two">>]) >>),
      \* struct { Value string `json:"value" readOnly:"yes"` }
      BadBool   |-> Struct("", << Fld("Value", "string",
                                      [json |-> <<"value">>, readOnly |-> "yes"]) >>),
      \* struct { Value string `json:"value" minLength:"x"` }
      BadInt    |-> Struct("", << Fld("Value", "string",
                                      [json |-> <<"value">>, minLength |-> "x"]) >>),
      \* struct { Value int `json:"value" minimum:"x"` }
      BadFloat  |-> Struct("", << Fld("Value", "int",
                                      [json |-> <<"value">>, minimum |-> "x"]) >>),
      \* struct { Value int `json:"value" default:"\"one\""` }
      BadDefault |-> Struct("", << Fld("Value", "int",
                                       [json |-> <<"value">>, default |-> <<"\"one\"">>]) >>),
      \* struct { Value bool `json:"value" example:"1"` }
      BadExample |-> Struct("", << Fld("Value", "bool",
                                       [json |-> <<"value">>, example |-> <<"1">>]) >>),
      \* struct { Value int `json:"value" enum:"1,x"` }
      BadEnum   |-> Struct("", << Fld("Value", "int",
                                      [json |-> <<"value">>, enum |-> <<"1", ",", "x">>]) >>),
      \* struct { Value string `json:"value" pattern:"^[a-"` }
      BadPattern |-> Struct("", << Fld("Value", "string",
                                       [json |-> <<"value">>, pattern |-> "^[a-"]) >>),
      \* type Twin struct { A string `json:"a" doc:"first" minLength:"1"`
      \*                    B string `json:"b" enum:"one,two" readOnly:"true"`
      \*                    C struct{...} `json:"c" doc:"third"`
      \*                    D struct{...} `json:"d"` }
      Twin      |-> Struct("Twin",
                           << Fld("A", "string",
                                  [json |-> <<"a">>, doc |-> "first", minLength |-> "1"]),
                              Fld("B", "string",
                                  [json |-> <<"b">>, enum |-> <<"one", ",", "two">>,
                                   readOnly |-> "true"]),
                              Fld("C", "Item", [json |-> <<"c">>, doc |-> "third"]),
                              Fld("D", "Item", Json("d")) >>),
      \* type Resp struct { Value string `json:"value"`
      \*                    note string
      \*                    Count int `json:"count"` }
      Resp      |-> Struct("Resp",
                           << Fld("Value", "string", Json("value")),
                              Hid("note", "string"),
                              Fld("Count", "int", Json("count")) >>),
      \* type Opt struct { A string `json:",omitempty"`
      \*                   B int `json:",omitempty"` }
      Opt       |-> Struct("Opt",
                           << Fld("A", "string", [json |-> <<",", "omitempty">>]),
                              Fld("B", "int", [json |-> <<",", "omitempty">>]) >>) ]

TypeNames == DOMAIN GoTypes

Kind(t) == GoTypes[t].Kind

Elem(t) == GoTypes[t].Elem

TypeName(t) == GoTypes[t].Name

\* f.Tag.Get(key): the empty string when the tag has no such key
TagGet(f, key) == IF key \in DOMAIN f.Tag THEN f.Tag[key] ELSE ""

\* f.Tag.Get(key) of the tags kept as token sequences (json, enum, default,
\* example): the empty sequence is the empty string
TagTokens(f, key) == IF key \in DOMAIN f.Tag THEN f.Tag[key] ELSE <<>>

\* the string a token sequence stands for
RECURSIVE Concat(_)
Concat(toks) == IF Len(toks) = 0 THEN "" ELSE toks[1] \o Concat(Tail(toks))

\* strings.Split(s, ","): at least one element, the text between the commas
RECURSIVE SplitFrom(_, _)
SplitFrom(toks, acc) ==
    IF Len(toks) = 0 THEN <<acc>>
    ELSE IF toks[1] = "," THEN <<acc>> \o SplitFrom(Tail(toks), "")
    ELSE SplitFrom(Tail(toks), acc \o toks[1])

Split(toks) == SplitFrom(toks, "")

\* strings.Contains(s, sub) for a sub without a comma, at the grain of tokens
Contains(toks, sub) == \E i \in 1..Len(toks) : toks[i] = sub

RECURSIVE deref(_)
deref(t) == IF Kind(t) = "ptr" THEN deref(Elem(t)) ELSE t

(***************************************************************************)
(* Decoded JSON values (Go's any): one record shape for every kind, so     *)
(* that values of different kinds can be compared.                         *)
(***************************************************************************)
VNull == [k |-> "null", b |-> FALSE, n |-> 0, s |-> "", a |-> <<>>, o |-> <<>>]

VBool(x) == [VNull EXCEPT !.k = "bool", !.b = x]

VNum(x) == [VNull EXCEPT !.k = "num", !.n = x]

VStr(x) == [VNull EXCEPT !.k = "str", !.s = x]

VArr(x) == [VNull EXCEPT !.k = "arr", !.a = x]

VObj(x) == [VNull EXCEPT !.k = "obj", !.o = x]

\* fmt.Sprintf("%v", v)
Sprint(v) ==
    CASE v.k = "bool" -> IF v.b THEN "true" ELSE "false"
      [] v.k = "num"  -> ToString(v.n)
      [] v.k = "str"  -> v.s
      [] OTHER        -> "<nil>"

\* strings.Join(mapTo(vs, Sprint), sep)
RECURSIVE JoinValues(_, _)
JoinValues(vs, sep) ==
    IF Len(vs) = 0 THEN ""
    ELSE IF Len(vs) = 1 THEN Sprint(vs[1])
    ELSE Sprint(vs[1]) \o sep \o JoinValues(Tail(vs), sep)

(***************************************************************************)
(* type Schema struct (schema.go 49-101).                                  *)
(***************************************************************************)
APNil == [kind |-> "nil", b |-> FALSE, id |-> 0]

APBool(x) == [kind |-> "bool", b |-> x, id |-> 0]

APSchema(p) == [kind |-> "schema", b |-> FALSE, id |-> p]

\* Schema{}: the zero value
Schema ==
    [ Type |-> "", Title |-> "", Description |-> "", Ref |-> "", Format |-> "",
      ContentEncoding |-> "", Default |-> <<>>, Examples |-> <<>>, Items |-> 0,
      AdditionalProperties |-> APNil, Properties |-> <<>>, Enum |-> <<>>,
      Minimum |-> <<>>, ExclusiveMinimum |-> <<>>, Maximum |-> <<>>,
      ExclusiveMaximum |-> <<>>, MultipleOf |-> <<>>, MinLength |-> <<>>,
      MaxLength |-> <<>>, Pattern |-> "", MinItems |-> <<>>, MaxItems |-> <<>>,
      UniqueItems |-> FALSE, Required |-> <<>>, MinProperties |-> <<>>,
      MaxProperties |-> <<>>, ReadOnly |-> FALSE, WriteOnly |-> FALSE,
      Deprecated |-> FALSE,
      patternRe |-> "", requiredMap |-> <<>>, propertyNames |-> <<>>,
      msgEnum |-> "", msgMinimum |-> "", msgExclusiveMinimum |-> "",
      msgMaximum |-> "", msgExclusiveMaximum |-> "", msgMultipleOf |-> "",
      msgMinLength |-> "", msgMaxLength |-> "", msgPattern |-> "",
      msgMinItems |-> "", msgMaxItems |-> "", msgMinProperties |-> "",
      msgMaxProperties |-> "", msgRequired |-> <<>> ]

\* Properties, Required, requiredMap and msgRequired are nil (<<>>) or hold
\* one map or slice: <<m>>
IsNil(x) == Len(x) = 0

\* m[k] of a Go map[string]*Schema, nil or not: the nil pointer when absent
PropGet(s, k) ==
    IF IsNil(s.Properties) THEN 0
    ELSE IF k \in DOMAIN s.Properties[1] THEN s.Properties[1][k] ELSE 0

PropKeys(s) == IF IsNil(s.Properties) THEN {} ELSE DOMAIN s.Properties[1]

\* s.requiredMap[k] of a map[string]bool: false when absent or the map is nil
RequiredGet(s, k) == ~IsNil(s.requiredMap) /\ k \in s.requiredMap[1]

\* s.msgRequired[k] of a map[string]string: "" when absent or the map is nil
MsgRequiredGet(s, k) ==
    IF IsNil(s.msgRequired) THEN ""
    ELSE IF k \in DOMAIN s.msgRequired[1] THEN s.msgRequired[1][k] ELSE ""

\* the patterns regexp.MustCompile accepts, among those the type table uses
ValidPatterns == {"^[a-z]+$"}

RECURSIVE RequiredMessages(_, _)
RequiredMessages(names, m) ==
    IF Len(names) = 0 THEN m
    ELSE RequiredMessages(Tail(names),
            [k \in DOMAIN m \cup {names[1]} |->
                IF k = names[1]
                THEN "expected required property " \o names[1] \o " to be present"
                ELSE m[k]])

\* a PrecomputeMessages that extends the enum message it finds instead of
\* writing it anew
PrecomputeMessagesAppend(s) ==
    [ok |-> ~(s.Pattern /= "" /\ s.Pattern \notin ValidPatterns),
     s |-> [s EXCEPT !.msgEnum = @ \o "expected value to be one of \""
                                   \o JoinValues(s.Enum, ", ") \o "\""]]

\* func (s *Schema) PrecomputeMessages(): ok is false when MustCompile panics
PrecomputeMessages(s) ==
    LET s1 == [s EXCEPT
                !.msgEnum = "expected value to be one of \"" \o JoinValues(s.Enum, ", ") \o "\"",
                !.msgMinimum = IF IsNil(s.Minimum) THEN @
                               ELSE "expected number >= " \o ToString(s.Minimum[1]),
                !.msgExclusiveMinimum = IF IsNil(s.ExclusiveMinimum) THEN @
                               ELSE "expected number > " \o ToString(s.ExclusiveMinimum[1]),
                !.msgMaximum = IF IsNil(s.Maximum) THEN @
                               ELSE "expected number <= " \o ToString(s.Maximum[1]),
                !.msgExclusiveMaximum = IF IsNil(s.ExclusiveMaximum) THEN @
                               ELSE "expected number < " \o ToString(s.ExclusiveMaximum[1]),
                !.msgMultipleOf = IF IsNil(s.MultipleOf) THEN @
                               ELSE "expected number to be a multiple of "
                                    \o ToString(s.MultipleOf[1]),
                !.msgMinLength = IF IsNil(s.MinLength) THEN @
                               ELSE "expected length >= " \o ToString(s.MinLength[1]),
                !.msgMaxLength = IF IsNil(s.MaxLength) THEN @
                               ELSE "expected length <= " \o ToString(s.MaxLength[1])]
        badPattern == s.Pattern /= "" /\ s.Pattern \notin ValidPatterns
        s2 == [s1 EXCEPT
                !.patternRe = IF s.Pattern /= "" THEN s.Pattern ELSE @,
                !.msgPattern = IF s.Pattern /= ""
                               THEN "expected string to match pattern " \o s.Pattern ELSE @,
                !.msgMinItems = IF IsNil(s.MinItems) THEN @
                               ELSE "expected array length >= " \o ToString(s.MinItems[1]),
                !.msgMaxItems = IF IsNil(s.MaxItems) THEN @
                               ELSE "expected array length <= " \o ToString(s.MaxItems[1]),
                !.msgMinProperties = IF IsNil(s.MinProperties) THEN @
                               ELSE "expected object with at least "
                                    \o ToString(s.MinProperties[1]) \o " properties",
                !.msgMaxProperties = IF IsNil(s.MaxProperties) THEN @
                               ELSE "expected object with at most "
                                    \o ToString(s.MaxProperties[1]) \o " properties",
                !.msgRequired = IF IsNil(s.Required) THEN @
                                ELSE << RequiredMessages(s.Required[1],
                                            IF IsNil(s.msgRequired) THEN <<>>
                                            ELSE s.msgRequired[1]) >>]
    IN  IF badPattern THEN [ok |-> FALSE, s |-> s1] ELSE [ok |-> TRUE, s |-> s2]

(***************************************************************************)
(* Tag parsing (schema.go 159-248).  A result with ok = FALSE is a panic.  *)
(***************************************************************************)
\* the strings strconv.Atoi and strconv.ParseFloat parse, among those used
Numerals == ("0" :> 0) @@ ("1" :> 1) @@ ("2" :> 2) @@ ("5" :> 5)

\* the texts json.Unmarshal parses, among those used, and what it yields
JSONLits ==
    ("0" :> VNum(0)) @@ ("1" :> VNum(1)) @@ ("2" :> VNum(2)) @@ ("true" :> VBool(TRUE))
    @@ ("false" :> VBool(FALSE)) @@ ("\"one\"" :> VStr("one")) @@ ("null" :> VNull)

\* a boolTag that reads every well-formed tag as false
boolTagFalse(f, tag) ==
    LET v == TagGet(f, tag)
    IN  IF v /= "" /\ v /= "true" /\ v /= "false" THEN [ok |-> FALSE, v |-> FALSE]
        ELSE [ok |-> TRUE, v |-> FALSE]

boolTag(f, tag) ==
    LET v == TagGet(f, tag)
    IN  IF v /= ""
        THEN IF v = "true" THEN [ok |-> TRUE, v |-> TRUE]
             ELSE IF v = "false" THEN [ok |-> TRUE, v |-> FALSE]
             ELSE [ok |-> FALSE, v |-> FALSE]
        ELSE [ok |-> TRUE, v |-> FALSE]

intTag(f, tag) ==
    LET v == TagGet(f, tag)
    IN  IF v /= ""
        THEN IF v \in DOMAIN Numerals THEN [ok |-> TRUE, v |-> <<Numerals[v]>>]
             ELSE [ok |-> FALSE, v |-> <<>>]
        ELSE [ok |-> TRUE, v |-> <<>>]

\* a floatTag that reads a tag it cannot parse as no tag
floatTagOrNil(f, tag) ==
    LET v == TagGet(f, tag)
    IN  IF v \in DOMAIN Numerals THEN [ok |-> TRUE, v |-> <<Numerals[v]>>]
        ELSE [ok |-> TRUE, v |-> <<>>]

floatTag(f, tag) ==
    LET v == TagGet(f, tag)
    IN  IF v /= ""
        THEN IF v \in DOMAIN Numerals THEN [ok |-> TRUE, v |-> <<Numerals[v]>>]
             ELSE [ok |-> FALSE, v |-> <<>>]
        ELSE [ok |-> TRUE, v |-> <<>>]

\* reflect: tv.ConvertibleTo(t) for the dynamic type of a decoded value
ConvertibleTo(v, t) ==
    CASE v.k = "num"  -> Kind(t) \in {"int", "uint", "float64", "interface"}
      [] v.k = "bool" -> Kind(t) \in {"bool", "interface"}
      [] v.k = "str"  -> Kind(t) \in {"string", "interface"}
      [] OTHER        -> Kind(t) = "interface"

\* strings.TrimSpace, on the texts used
TrimSpace(x) == IF x = " two" THEN "two" ELSE x

\* the result is nil (<<>>) or one value (<<v>>)
jsonTagValue(f, t, value) ==
    IF Kind(t) = "string" THEN [ok |-> TRUE, v |-> <<VStr(Concat(value))>>]
    ELSE IF Kind(t) = "slice" /\ Kind(Elem(t)) = "string" /\ value[1] /= "["
    THEN [ok |-> TRUE,
          v |-> << VArr([i \in 1..Len(Split(value)) |-> VStr(TrimSpace(Split(value)[i]))]) >>]
    ELSE IF Concat(value) \notin DOMAIN JSONLits THEN [ok |-> FALSE, v |-> <<>>]
    ELSE LET v == JSONLits[Concat(value)]
         IN  IF v.k = "null" THEN [ok |-> TRUE, v |-> <<>>]
             ELSE IF v.k = "num" /\ Kind(t) = "float64" THEN [ok |-> TRUE, v |-> <<v>>]
             ELSE IF v.k = "bool" /\ Kind(t) = "bool" THEN [ok |-> TRUE, v |-> <<v>>]
             ELSE IF v.k = "arr"
             THEN IF Kind(t) = "slice" /\ \A i \in 1..Len(v.a) : ConvertibleTo(v.a[i], Elem(t))
                  THEN [ok |-> TRUE, v |-> <<v>>]
                  ELSE [ok |-> FALSE, v |-> <<>>]
             ELSE IF ~ConvertibleTo(v, t) THEN [ok |-> FALSE, v |-> <<>>]
             ELSE [ok |-> TRUE, v |-> <<v>>]

jsonTag(f, name) ==
    LET value == TagTokens(f, name)
    IN  IF value /= <<>> THEN jsonTagValue(f, f.Type, value) ELSE [ok |-> TRUE, v |-> <<>>]

\* the enum members of a field: jsonTagValue of every element of Split
RECURSIVE EnumValues(_, _, _)
EnumValues(f, fType, elems) ==
    IF Len(elems) = 0 THEN [ok |-> TRUE, v |-> <<>>]
    ELSE LET e == jsonTagValue(f, fType, <<elems[1]>>)
             rest == EnumValues(f, fType, Tail(elems))
         IN  IF ~e.ok \/ ~rest.ok THEN [ok |-> FALSE, v |-> <<>>]
             ELSE [ok |-> TRUE, v |-> (IF e.v = <<>> THEN <<VNull>> ELSE e.v) \o rest.v]

(***************************************************************************)
(* getFields (schema.go 315-347).  Go's call stack is bounded: a recursion *)
(* deeper than MaxDepth overflows it, which ends the program.              *)
(***************************************************************************)
RECURSIVE getFields(_, _)
RECURSIVE EmbeddedFields(_, _, _)

\* the second loop of getFields over embedded[i..]
EmbeddedFields(embedded, i, d) ==
    IF i > Len(embedded) THEN [ok |-> TRUE, fields |-> <<>>]
    ELSE LET newTyp == deref(embedded[i].Type)
             here == IF Kind(newTyp) = "struct" THEN getFields(newTyp, d + 1)
                     ELSE [ok |-> TRUE, fields |-> <<>>]
         IN  IF ~here.ok THEN here
             ELSE LET rest == EmbeddedFields(embedded, i + 1, d)
                  IN  [ok |-> rest.ok, fields |-> here.fields \o rest.fields]

getFields(typ, d) ==
    IF d > MaxDepth THEN [ok |-> FALSE, fields |-> <<>>]
    ELSE LET all == GoTypes[typ].Fields
             exported == SelectSeq(all, LAMBDA f : f.Exported)
             named == SelectSeq(exported, LAMBDA f : ~f.Anonymous)
             embedded == SelectSeq(exported, LAMBDA f : f.Anonymous)
             fields == [i \in 1..Len(named) |-> [Parent |-> typ, Field |-> named[i]]]
             more == EmbeddedFields(embedded, 1, d)
         IN  [ok |-> more.ok, fields |-> fields \o more.fields]

(***************************************************************************)
(* The synthesizer and the registry.  A synthesis state st is the heap and *)
(* the registry; every operation yields [st, ret, fault]: the state it     *)
(* leaves, the pointer it returns and, when it panicked, why.              *)
(***************************************************************************)
NoFault == ""

Alloc(st, s) == [st EXCEPT !.heap = Append(@, s)]

NewId(st) == Len(st.heap) + 1

Prefix == "#/components/schemas/"

\* the registry's namer: the type's own name, or the hint for an unnamed
\* type; a name already given to another type gets the first free number
BaseName(t, hint) == IF TypeName(t) /= "" THEN TypeName(t) ELSE hint

NameTaken(rg, name) == \E u \in DOMAIN rg : rg[u].name = name

RECURSIVE FreeName(_, _, _)
FreeName(rg, base, n) ==
    LET name == IF n = 1 THEN base ELSE base \o ToString(n)
    IN  IF NameTaken(rg, name) THEN FreeName(rg, base, n + 1) ELSE name

\* a namer that gives the base name whether it is taken or not
SchemaNamerTaken(rg, t, hint) == BaseName(t, hint)

SchemaNamer(rg, t, hint) == FreeName(rg, BaseName(t, hint), 1)

\* the types that are registered and referenced: the record types
GetsRef(t) == Kind(t) = "struct"

\* the first, registering step of Registry.Schema for an unregistered type
RegisterPlaceholder(rg, t, hint) ==
    LET name == SchemaNamer(rg, t, hint)
    IN  [u \in DOMAIN rg \cup {t} |->
            IF u = t THEN [name |-> name, ref |-> Prefix \o name, schema |-> 0, done |-> FALSE]
            ELSE rg[u]]

\* the last, caching step of Registry.Schema
StoreSchema(rg, t, id) == [rg EXCEPT ![t].schema = id, ![t].done = TRUE]

RECURSIVE RegistrySchema(_, _, _, _, _)
RECURSIVE SchemaFromType(_, _, _)
RECURSIVE SchemaFromField(_, _, _, _)
RECURSIVE StructFields(_, _, _, _, _)
RECURSIVE FieldSteps(_, _, _, _)

\* the assignments of SchemaFromField (schema.go 259-303) from the i-th on,
\* on the Schema fs points to; ok is false when one of them panics
FieldStep(i, hp, fs, f) ==
    LET s == hp[fs]
        set(ns) == [ok |-> TRUE, heap |-> [hp EXCEPT ![fs] = ns]]
        bad == [ok |-> FALSE, heap |-> hp]
        opt(r, ns) == IF r.ok THEN set(ns) ELSE bad
    IN  CASE i = 1 -> set([s EXCEPT !.Description = TagGet(f, "doc")])
          [] i = 2 -> set([s EXCEPT !.Format = IF TagGet(f, "format") /= ""
                                               THEN TagGet(f, "format") ELSE @])
          [] i = 3 -> set([s EXCEPT !.ContentEncoding = IF TagGet(f, "encoding") /= ""
                                               THEN TagGet(f, "encoding") ELSE @])
          [] i = 4 -> opt(jsonTag(f, "default"), [s EXCEPT !.Default = jsonTag(f, "default").v])
          [] i = 5 -> opt(jsonTag(f, "example"),
                          [s EXCEPT !.Examples = IF jsonTag(f, "example").v /= <<>>
                                                 THEN jsonTag(f, "example").v ELSE @])
          [] i = 6 ->
                LET enum == TagTokens(f, "enum")
                    fType == IF s.Type = TypeArray THEN Elem(f.Type) ELSE f.Type
                    ev == EnumValues(f, fType, Split(enum))
                IN  IF enum = <<>> THEN set(s)
                    ELSE IF ~ev.ok THEN bad
                    ELSE IF s.Type = TypeArray
                    THEN IF s.Items = 0 THEN bad
                         ELSE [ok |-> TRUE,
                               heap |-> [hp EXCEPT ![s.Items] = [@ EXCEPT !.Enum = ev.v]]]
                    ELSE set([s EXCEPT !.Enum = ev.v])
          [] i = 7 -> opt(floatTag(f, "minimum"),
                          [s EXCEPT !.Minimum = floatTag(f, "minimum").v])
          [] i = 8 -> opt(floatTag(f, "exclusiveMinimum"),
                          [s EXCEPT !.ExclusiveMinimum = floatTag(f, "exclusiveMinimum").v])
          [] i = 9 -> opt(floatTag(f, "maximum"),
                          [s EXCEPT !.Maximum = floatTag(f, "maximum").v])
          [] i = 10 -> opt(floatTag(f, "exclusiveMaximum"),
                          [s EXCEPT !.ExclusiveMaximum = floatTag(f, "exclusiveMaximum").v])
          [] i = 11 -> opt(floatTag(f, "multipleOf"),
                          [s EXCEPT !.MultipleOf = floatTag(f, "multipleOf").v])
          [] i = 12 -> opt(intTag(f, "minLength"),
                          [s EXCEPT !.MinLength = intTag(f, "minLength").v])
          [] i = 13 -> opt(intTag(f, "maxLength"),
                          [s EXCEPT !.MaxLength = intTag(f, "maxLength").v])
          [] i = 14 -> set([s EXCEPT !.Pattern = TagGet(f, "pattern")])
          [] i = 15 -> opt(intTag(f, "minItems"),
                          [s EXCEPT !.MinItems = intTag(f, "minItems").v])
          [] i = 16 -> opt(intTag(f, "maxItems"),
                          [s EXCEPT !.MaxItems = intTag(f, "maxItems").v])
          [] i = 17 -> opt(boolTag(f, "uniqueItems"),
                          [s EXCEPT !.UniqueItems = boolTag(f, "uniqueItems").v])
          [] i = 18 -> opt(intTag(f, "minProperties"),
                          [s EXCEPT !.MinProperties = intTag(f, "minProperties").v])
          [] i = 19 -> opt(intTag(f, "maxProperties"),
                          [s EXCEPT !.MaxProperties = intTag(f, "maxProperties").v])
          [] i = 20 -> opt(boolTag(f, "readOnly"),
                          [s EXCEPT !.ReadOnly = boolTag(f, "readOnly").v])
          [] i = 21 -> opt(boolTag(f, "writeOnly"),
                          [s EXCEPT !.WriteOnly = boolTag(f, "writeOnly").v])
          [] i = 22 -> opt(boolTag(f, "deprecated"),
                          [s EXCEPT !.Deprecated = boolTag(f, "deprecated").v])
          [] OTHER -> opt(PrecomputeMessages(s), PrecomputeMessages(s).s)

LastFieldStep == 23

\* the rest of the assignments after the i-th, unless that one panicked
AfterStep(r, i, fs, f) == IF r.ok THEN FieldSteps(i + 1, r.heap, fs, f) ELSE r

FieldSteps(i, hp, fs, f) ==
    IF i > LastFieldStep THEN [ok |-> TRUE, heap |-> hp]
    ELSE AfterStep(FieldStep(i, hp, fs, f), i, fs, f)

\* the field's Schema once its annotations are applied (m is their outcome)
Annotated(r, m) ==
    [st |-> [r.st EXCEPT !.heap = m.heap], ret |-> r.ret,
     fault |-> IF m.ok THEN NoFault ELSE "invalid tag"]

\* SchemaFromField after registry.Schema returned r (schema.go 256-305)
Annotate(r, f) ==
    IF r.fault /= NoFault \/ r.ret = 0 THEN r
    ELSE Annotated(r, FieldSteps(1, r.st.heap, r.ret, f))

SchemaFromField(st, parent, f, d) ==
    Annotate(RegistrySchema(st, f.Type, TRUE, TypeName(parent) \o f.Name \o "Struct", d), f)

\* the serialized name of a field and whether it is optional
\* (schema.go 435-442)
FieldName(f) ==
    LET j == TagTokens(f, "json")
    IN  IF j /= <<>> THEN Split(j)[1] ELSE f.Name

FieldOmit(f) ==
    LET j == TagTokens(f, "json")
    IN  j /= <<>> /\ Contains(j, "omitempty")

\* what the loop has captured so far: required, requiredMap, propNames, props
NoProps == [required |-> <<>>, requiredMap |-> {}, propNames |-> <<>>, props |-> <<>>]

\* a capture that takes every field for required, optional or not
CaptureRequired(acc, name, fs, omit) ==
    [acc EXCEPT !.props = [k \in DOMAIN @ \cup {name} |-> IF k = name THEN fs ELSE @[k]],
                !.propNames = Append(@, name),
                !.required = Append(@, name),
                !.requiredMap = @ \cup {name}]

\* props[name] = fs and the lists that go with it (schema.go 455-460)
Capture(acc, name, fs, omit) ==
    [acc EXCEPT !.props = [k \in DOMAIN @ \cup {name} |-> IF k = name THEN fs ELSE @[k]],
                !.propNames = Append(@, name),
                !.required = IF omit THEN @ ELSE Append(@, name),
                !.requiredMap = IF omit THEN @ ELSE @ \cup {name}]

\* an object Schema that says nothing about additional properties
StructSchemaOpen(acc) ==
    PrecomputeMessages([Schema EXCEPT !.Type = TypeObject,
                                      !.Properties = <<acc.props>>,
                                      !.propertyNames = acc.propNames,
                                      !.Required = <<acc.required>>,
                                      !.requiredMap = <<acc.requiredMap>>]).s

\* the object Schema of a record type (schema.go 463-469)
StructSchema(acc) ==
    PrecomputeMessages([Schema EXCEPT !.Type = TypeObject,
                                      !.AdditionalProperties = APBool(FALSE),
                                      !.Properties = <<acc.props>>,
                                      !.propertyNames = acc.propNames,
                                      !.Required = <<acc.required>>,
                                      !.requiredMap = <<acc.requiredMap>>]).s

\* the rest of the loop after the i-th field, whose Schema is r.ret (nil
\* when the field is skipped or has no Schema)
NextField(r, infos, i, acc, d) ==
    IF r.fault /= NoFault THEN [st |-> r.st, acc |-> acc, fault |-> r.fault]
    ELSE StructFields(r.st, infos, i + 1,
                      IF r.ret = 0 THEN acc
                      ELSE Capture(acc, FieldName(infos[i].Field), r.ret,
                                   FieldOmit(infos[i].Field)),
                      d)

\* is the field left out: named "-", or its name already captured
Skipped(f, acc) ==
    \/ FieldName(f) = "-"
    \/ FieldName(f) \in DOMAIN acc.props /\ acc.props[FieldName(f)] /= 0

\* the loop of SchemaFromType over getFields(t)[i..] (schema.go 432-462)
StructFields(st, infos, i, acc, d) ==
    IF i > Len(infos) THEN [st |-> st, acc |-> acc, fault |-> NoFault]
    ELSE NextField(IF Skipped(infos[i].Field, acc)
                   THEN [st |-> st, ret |-> 0, fault |-> NoFault]
                   ELSE SchemaFromField(st, infos[i].Parent, infos[i].Field, d),
                   infos, i, acc, d)

\* return &s for a Schema value s
NewSchema(st, s) == [st |-> Alloc(st, s), ret |-> NewId(st), fault |-> NoFault]

\* the Schema of a slice, array or map whose element Schema is elem.ret
\* (schema.go 414-428)
Composite(elem, t) ==
    LET len == IF Kind(t) = "array" THEN <<GoTypes[t].Len>> ELSE <<>>
    IN  IF elem.fault /= NoFault THEN elem
        ELSE IF Kind(t) = "map"
        THEN NewSchema(elem.st, [Schema EXCEPT !.Type = TypeObject,
                                   !.AdditionalProperties = APSchema(elem.ret)])
        ELSE NewSchema(elem.st, [Schema EXCEPT !.Type = TypeArray, !.Items = elem.ret,
                                   !.MinItems = len, !.MaxItems = len])

\* the Schema of a record type once the loop over its fields has ended
ObjectOf(loop) ==
    IF loop.fault /= NoFault THEN [st |-> loop.st, ret |-> 0, fault |-> loop.fault]
    ELSE NewSchema(loop.st, StructSchema(loop.acc))

\* the record case of SchemaFromType for the fields getFields found
StructCase(r, infos, d) ==
    IF ~infos.ok THEN [st |-> r, ret |-> 0, fault |-> "stack overflow"]
    ELSE ObjectOf(StructFields(r, infos.fields, 1, NoProps, d))

SchemaFromType(r, t0, d) ==
    LET t == deref(t0)
        k == Kind(t)
        int(format) == [Schema EXCEPT !.Type = TypeInteger, !.Format = format]
    IN  CASE k = "bool" -> NewSchema(r, [Schema EXCEPT !.Type = TypeBoolean])
          [] k = "int" -> NewSchema(r, int("int64"))
          [] k = "uint" -> NewSchema(r, [int("int64") EXCEPT !.Minimum = <<0>>])
          [] k = "float64" ->
                NewSchema(r, [Schema EXCEPT !.Type = TypeNumber, !.Format = "double"])
          [] k = "string" -> NewSchema(r, [Schema EXCEPT !.Type = TypeString])
          [] k \in {"slice", "array", "map"} ->
                IF k /= "map" /\ Kind(Elem(t)) = "uint8"
                THEN NewSchema(r, [Schema EXCEPT !.Type = TypeString,
                                                 !.ContentEncoding = "base64"])
                ELSE Composite(RegistrySchema(r, Elem(t), TRUE,
                                              TypeName(t) \o (IF k = "map" THEN "Value"
                                                              ELSE "Item"), d),
                               t)
          [] k = "struct" -> StructCase(r, getFields(t, 1), d)
          [] k = "interface" -> NewSchema(r, Schema)
          [] OTHER -> [st |-> r, ret |-> 0, fault |-> NoFault]

(***************************************************************************)
(* Registry.Schema(t, allowRef, hint).  A record type is registered under  *)
(* its name and ref before its fields are synthesized, and its Schema is   *)
(* cached by type; every other type is synthesized inline.                 *)
(***************************************************************************)
RefSchema(ref) == [Schema EXCEPT !.Ref = ref]

\* a registry that hands out the stored Schema of a registered type also
\* where a reference is allowed
GiveStored(st, t, allowRef) == [st |-> st, ret |-> st.reg[t].schema, fault |-> NoFault]

\* what the caller gets for the registered type t: its Schema, or a new
\* Schema that only refers to it
Give(st, t, allowRef) ==
    IF allowRef
    THEN [st |-> Alloc(st, RefSchema(st.reg[t].ref)), ret |-> NewId(st), fault |-> NoFault]
    ELSE [st |-> st, ret |-> st.reg[t].schema, fault |-> NoFault]

\* the end of Registry.Schema after the synthesis r of the type t: the
\* Schema of a record type is stored, any other is handed out as it is
Synthesized(r, t, allowRef) ==
    IF r.fault /= NoFault \/ ~GetsRef(t) THEN r
    ELSE Give([r.st EXCEPT !.reg = StoreSchema(@, t, r.ret)], t, allowRef)

\* a registry that consults its cache only for a type in progress and
\* synthesizes a finished type again
RegistrySchemaAgain(st, t0, allowRef, hint, d) ==
    IF d > MaxDepth THEN [st |-> st, ret |-> 0, fault |-> "stack overflow"]
    ELSE IF deref(t0) \in DOMAIN st.reg /\ ~st.reg[deref(t0)].done
    THEN Give(st, deref(t0), allowRef)
    ELSE Synthesized(SchemaFromType(IF GetsRef(deref(t0))
                                    THEN [st EXCEPT !.reg =
                                             RegisterPlaceholder(@, deref(t0), hint)]
                                    ELSE st,
                                    deref(t0), d + 1),
                     deref(t0), allowRef)

RegistrySchema(st, t0, allowRef, hint, d) ==
    IF d > MaxDepth THEN [st |-> st, ret |-> 0, fault |-> "stack overflow"]
    ELSE IF deref(t0) \in DOMAIN st.reg THEN Give(st, deref(t0), allowRef)
    ELSE Synthesized(SchemaFromType(IF GetsRef(deref(t0))
                                    THEN [st EXCEPT !.reg =
                                             RegisterPlaceholder(@, deref(t0), hint)]
                                    ELSE st,
                                    deref(t0), d + 1),
                     deref(t0), allowRef)

\* SchemaFromRef(ref): the stored Schema of the entry with that ref, or nil
SchemaFromRef(rg, ref) ==
    IF \E u \in DOMAIN rg : rg[u].ref = ref
    THEN rg[CHOOSE u \in DOMAIN rg : rg[u].ref = ref].schema
    ELSE 0

\* TypeFromRef(ref): the native type of the entry with that ref
TypeFromRef(rg, ref) ==
    IF \E u \in DOMAIN rg : rg[u].ref = ref
    THEN CHOOSE u \in DOMAIN rg : rg[u].ref = ref
    ELSE ""

(***************************************************************************)
(* PathBuffer and ValidateResult.  The buffer is the sequence of pushed    *)
(* segments; a validation state vs is [pb, errs, panic].                   *)
(***************************************************************************)
ModeReadFromServer == "ReadFromServer"

ModeWriteToServer == "WriteToServer"

Modes == {ModeReadFromServer, ModeWriteToServer}

Push(vs, key) == [vs EXCEPT !.pb = Append(@, [index |-> FALSE, seg |-> key])]

PushIndex(vs, i) == [vs EXCEPT !.pb = Append(@, [index |-> TRUE, seg |-> ToString(i)])]

\* a Pop that leaves the last segment on the buffer
PopKeep(vs) == vs

Pop(vs) == [vs EXCEPT !.pb = SubSeq(@, 1, Len(@) - 1)]

\* the location the buffer stands for: keys joined by ".", indexes as [i]
RECURSIVE PathString(_)
PathString(b) ==
    IF Len(b) = 0 THEN ""
    ELSE LET front == PathString(SubSeq(b, 1, Len(b) - 1))
             last == b[Len(b)]
         IN  IF last.index THEN front \o "[" \o last.seg \o "]"
             ELSE IF front = "" THEN last.seg
             ELSE front \o "." \o last.seg

\* res.Add(path, value, message)
Add(vs, v, msg) ==
    [vs EXCEPT !.errs = Append(@, [location |-> PathString(vs.pb), message |-> msg,
                                   value |-> v])]

(***************************************************************************)
(* Validate(registry, schema, path, mode, value, result).  ctx holds what  *)
(* a call only reads: the heap, the registry, and ord, the order in which  *)
(* this run of the program iterates over the keys of a Go map.             *)
(***************************************************************************)
\* follow $ref to the stored Schema; 0 when the ref leads to no Schema
RECURSIVE Resolve(_, _)
Resolve(ctx, sid) ==
    IF sid = 0 THEN 0
    ELSE IF ctx.heap[sid].Ref = "" THEN sid
    ELSE Resolve(ctx, SchemaFromRef(ctx.reg, ctx.heap[sid].Ref))

\* the message of the type violation of a schema type (validate_test.go
\* 26-57, 139-144, 450-455, 555-560)
ExpectedMessage(type) ==
    CASE type = TypeBoolean -> "expected boolean"
      [] type = TypeInteger -> "expected number"
      [] type = TypeNumber  -> "expected number"
      [] type = TypeString  -> "expected string"
      [] type = TypeArray   -> "expected array"
      [] OTHER              -> "expected object"

\* does the kind of the value match the declared type
KindMatches(type, v) ==
    CASE type = TypeBoolean -> v.k = "bool"
      [] type = TypeInteger -> v.k = "num"
      [] type = TypeNumber  -> v.k = "num"
      [] type = TypeString  -> v.k = "str"
      [] type = TypeArray   -> v.k = "arr"
      [] type = TypeObject  -> v.k = "obj"
      [] OTHER              -> TRUE

\* reflect.ValueOf(v).IsZero(): a non-nil slice or map is not zero
IsZero(v) ==
    CASE v.k = "bool" -> ~v.b
      [] v.k = "num"  -> v.n = 0
      [] v.k = "str"  -> v.s = ""
      [] v.k = "null" -> TRUE
      [] OTHER        -> FALSE

\* the strings the patterns of ValidPatterns match, among those used
PatternMatches(pattern, x) == x \in {"a", "one", "two"}

\* readOnly and writeOnly adjust whether a declared property is required
RequiredInMode(s, prop, k, mode) ==
    IF mode = ModeReadFromServer THEN RequiredGet(s, k) \/ prop.ReadOnly
    ELSE RequiredGet(s, k) /\ ~prop.ReadOnly

\* a set as a sequence
RECURSIVE SeqOf(_)
SeqOf(set) ==
    IF set = {} THEN <<>>
    ELSE LET x == CHOOSE y \in set : TRUE IN <<x>> \o SeqOf(set \ {x})

\* the declared properties in the order of their declaration: the names
\* the synthesizer recorded, then a property added to the mapping later
\* (OnAddOperation adds at most one, so these have one order)
DeclaredOrder(s) ==
    s.propertyNames
        \o SeqOf({k \in PropKeys(s) : \A i \in 1..Len(s.propertyNames) : s.propertyNames[i] /= k})

\* the keys of a Go map in the order this run iterates over them
KeyOrder(ctx, m) == SelectSeq(ctx.ord, LAMBDA k : k \in DOMAIN m)

\* a result that keeps the first failed check only
CheckFirst(vs, failed, v, msg) == IF failed /\ vs.errs = <<>> THEN Add(vs, v, msg) ELSE vs

Check(vs, failed, v, msg) == IF failed THEN Add(vs, v, msg) ELSE vs

ValidateNumber(s, vs, v) ==
    LET v1 == Check(vs, ~IsNil(s.Minimum) /\ v.n < s.Minimum[1], v, s.msgMinimum)
        v2 == Check(v1, ~IsNil(s.ExclusiveMinimum) /\ v.n <= s.ExclusiveMinimum[1],
                    v, s.msgExclusiveMinimum)
        v3 == Check(v2, ~IsNil(s.Maximum) /\ v.n > s.Maximum[1], v, s.msgMaximum)
        v4 == Check(v3, ~IsNil(s.ExclusiveMaximum) /\ v.n >= s.ExclusiveMaximum[1],
                    v, s.msgExclusiveMaximum)
    IN  Check(v4, ~IsNil(s.MultipleOf) /\ s.MultipleOf[1] /= 0
                  /\ v.n % s.MultipleOf[1] /= 0, v, s.msgMultipleOf)

ValidateString(s, vs, v) ==
    LET v1 == Check(vs, ~IsNil(s.MinLength) /\ Len(v.s) < s.MinLength[1], v, s.msgMinLength)
        v2 == Check(v1, ~IsNil(s.MaxLength) /\ Len(v.s) > s.MaxLength[1], v, s.msgMaxLength)
    IN  Check(v2, s.patternRe /= "" /\ ~PatternMatches(s.patternRe, v.s), v, s.msgPattern)

RECURSIVE Validate(_, _, _, _, _)
RECURSIVE ValidateItems(_, _, _, _, _, _)
RECURSIVE ValidateProperties(_, _, _, _, _, _, _)
RECURSIVE ValidateUnexpected(_, _, _, _, _, _)
RECURSIVE ValidateAdditional(_, _, _, _, _, _)

\* every element of the array from the i-th on, its index pushed
ValidateItems(ctx, s, vs, mode, v, i) ==
    IF i > Len(v.a) \/ vs.panic THEN vs
    ELSE ValidateItems(ctx, s,
                       Pop(Validate(ctx, s.Items, PushIndex(vs, i - 1), mode, v.a[i])),
                       mode, v, i + 1)

\* the declared properties from the i-th of names on
ValidateProperties(ctx, s, vs, mode, v, names, i) ==
    IF i > Len(names) \/ vs.panic THEN vs
    ELSE LET k == names[i]
             prop == ctx.heap[PropGet(s, k)]
             present == k \in DOMAIN v.o
             v1 == IF ~present
                   THEN Check(vs, RequiredInMode(s, prop, k, mode), v, MsgRequiredGet(s, k))
                   ELSE LET wo == Check(vs, mode = ModeReadFromServer /\ prop.WriteOnly
                                            /\ ~IsZero(v.o[k]),
                                        v.o[k], "write only property is non-zero")
                        IN  Pop(Validate(ctx, PropGet(s, k), Push(wo, k), mode, v.o[k]))
         IN  ValidateProperties(ctx, s, v1, mode, v, names, i + 1)

\* additionalProperties: false, over the input keys from the i-th on
ValidateUnexpected(ctx, s, vs, v, keys, i) ==
    IF i > Len(keys) THEN vs
    ELSE ValidateUnexpected(ctx, s,
            IF keys[i] \in PropKeys(s) THEN vs
            ELSE Pop(Add(Push(vs, keys[i]), v, "unexpected property")),
            v, keys, i + 1)

\* additionalProperties: a schema, over the input keys from the i-th on
ValidateAdditional(ctx, s, vs, mode, v, i) ==
    LET keys == KeyOrder(ctx, v.o)
    IN  IF i > Len(keys) \/ vs.panic THEN vs
        ELSE ValidateAdditional(ctx, s,
                Pop(Validate(ctx, s.AdditionalProperties.id, Push(vs, keys[i]), mode,
                             v.o[keys[i]])),
                mode, v, i + 1)

ValidateArray(ctx, s, vs, mode, v) ==
    LET v1 == Check(vs, ~IsNil(s.MinItems) /\ Len(v.a) < s.MinItems[1], v, s.msgMinItems)
        v2 == Check(v1, ~IsNil(s.MaxItems) /\ Len(v.a) > s.MaxItems[1], v, s.msgMaxItems)
        v3 == Check(v2, s.UniqueItems
                        /\ \E i, j \in 1..Len(v.a) : i /= j /\ v.a[i] = v.a[j],
                    v, "expected array items to be unique")
    IN  ValidateItems(ctx, s, v3, mode, v, 1)

ValidateObject(ctx, s, vs, mode, v) ==
    LET n == Cardinality(DOMAIN v.o)
        v1 == Check(vs, ~IsNil(s.MinProperties) /\ n < s.MinProperties[1],
                    v, s.msgMinProperties)
        v2 == Check(v1, ~IsNil(s.MaxProperties) /\ n > s.MaxProperties[1],
                    v, s.msgMaxProperties)
        v3 == ValidateProperties(ctx, s, v2, mode, v, DeclaredOrder(s), 1)
        v4 == IF s.AdditionalProperties = APBool(FALSE)
              THEN ValidateUnexpected(ctx, s, v3, v, KeyOrder(ctx, v.o), 1)
              ELSE v3
    IN  IF s.AdditionalProperties.kind = "schema"
        THEN ValidateAdditional(ctx, s, v4, mode, v, 1)
        ELSE v4

\* a Validate that records the type violation and goes on with the node
ValidateThrough(ctx, sid, vs, mode, v) ==
    LET id == Resolve(ctx, sid)
        s == ctx.heap[id]
        in == IF KindMatches(s.Type, v) THEN vs ELSE Add(vs, v, ExpectedMessage(s.Type))
        checked ==
            CASE s.Type \in {TypeInteger, TypeNumber} -> ValidateNumber(s, in, v)
              [] s.Type = TypeString -> ValidateString(s, in, v)
              [] s.Type = TypeArray  -> ValidateArray(ctx, s, in, mode, v)
              [] s.Type = TypeObject -> ValidateObject(ctx, s, in, mode, v)
              [] OTHER -> in
    IN  IF vs.panic THEN vs
        ELSE IF id = 0 THEN [vs EXCEPT !.panic = TRUE]
        ELSE Check(checked, Len(s.Enum) > 0 /\ \A i \in 1..Len(s.Enum) : s.Enum[i] /= v,
                   v, s.msgEnum)

Validate(ctx, sid, vs, mode, v) ==
    LET id == Resolve(ctx, sid)
        s == ctx.heap[id]
        checked ==
            CASE s.Type \in {TypeInteger, TypeNumber} -> ValidateNumber(s, vs, v)
              [] s.Type = TypeString -> ValidateString(s, vs, v)
              [] s.Type = TypeArray  -> ValidateArray(ctx, s, vs, mode, v)
              [] s.Type = TypeObject -> ValidateObject(ctx, s, vs, mode, v)
              [] OTHER -> vs
    IN  IF vs.panic THEN vs
        ELSE IF id = 0 THEN [vs EXCEPT !.panic = TRUE]
        ELSE IF ~KindMatches(s.Type, v) THEN Add(vs, v, ExpectedMessage(s.Type))
        ELSE Check(checked, Len(s.Enum) > 0 /\ \A i \in 1..Len(s.Enum) : s.Enum[i] /= v,
                   v, s.msgEnum)

(***************************************************************************)
(* The program: a registry, the Schema calls made on it, and validations.  *)
(***************************************************************************)
\* the types and name hints callers pass to Registry.Schema
RootTypes == {"int", "string", "MapInt", "Nested", "RO", "ROOpt", "WO", "Form",
              "Node", "Tree", "Dir", "Loop", "Sized", "Holder", "Outer", "Choice",
              "BadBool", "BadInt", "BadFloat", "BadDefault", "BadExample", "BadEnum",
              "BadPattern"}

Hints == {"TestInput"}

NoCall == [t |-> "", allowRef |-> FALSE, hint |-> "", ret |-> 0]

NoRun == [schema |-> 0, mode |-> "", value |-> VNull, errors |-> <<>>, panic |-> FALSE]

\* the decoded values handed to Validate
Inputs ==
    { VBool(TRUE), VNum(0), VNum(1), VStr(""), VStr("a"),
      VObj(<<>>),
      VObj("value" :> VStr("a")),
      VObj("value" :> VStr("")),
      VObj("value" :> VNum(5)),
      VObj("extra" :> VStr("a")),
      VObj(("extra" :> VNum(1)) @@ ("other" :> VNum(2))),
      VObj(("count" :> VNum(0)) @@ ("value" :> VStr("")) @@ ("extra" :> VNum(1))),
      VObj(("count" :> VNum(1)) @@ ("hook" :> VNum(1))),
      VObj(("one" :> VNum(1)) @@ ("two" :> VBool(TRUE))),
      VObj("items" :> VArr(<<VObj(<<>>)>>)),
      VObj("items" :> VArr(<<VObj("value" :> VStr("a")), VObj("value" :> VNum(1))>>)),
      VObj(("value" :> VStr("a")) @@ ("next" :> VObj(<<>>))),
      VObj("children" :> VArr(<<VObj(<<>>), VNum(1)>>)),
      VObj("sub" :> VObj("one" :> VObj(<<>>))),
      VObj(("$schema" :> VNum(5)) @@ ("value" :> VStr("a"))),
      VObj(("count" :> VObj("extra" :> VNum(1))) @@ ("value" :> VStr(""))),
      VObj(("value" :> VStr("a")) @@ ("tags" :> VArr(<<VStr("one"), VStr("a")>>))) }

\* every key of every object in a value
RECURSIVE KeysIn(_)
KeysIn(v) ==
    CASE v.k = "obj" -> DOMAIN v.o \cup UNION {KeysIn(v.o[k]) : k \in DOMAIN v.o}
      [] v.k = "arr" -> UNION {KeysIn(v.a[i]) : i \in 1..Len(v.a)}
      [] OTHER -> {}

\* the orders in which a run may iterate over these keys
KeyOrders(keys) ==
    {p \in [1..Cardinality(keys) -> keys] :
        \A i, j \in 1..Cardinality(keys) : i /= j => p[i] /= p[j]}

\* a caller of Registry.Schema that has not called yet
Idle == [pc |-> "idle", t |-> "", allowRef |-> FALSE, ret |-> 0, waited |-> FALSE]

\* a validating goroutine that has not begun: its PathBuffer and its
\* ValidateResult are empty
Resting == [pc |-> "idle", mode |-> "", value |-> VNull, ord |-> <<>>, pb |-> <<>>,
            res |-> <<>>, panic |-> FALSE]

\* a response value: its type (none for nil) and the values of its fields
\* as the type declares them
Value(typ, fields) == [typ |-> typ, names |-> <<>>, fields |-> fields]

\* no Transform yet
NoSend == [host |-> "", v |-> Value("", <<>>), found |-> FALSE, out |-> Value("", <<>>),
           header |-> "", panic |-> FALSE]

Init ==
    /\ heap = <<>>
    /\ reg = <<>>
    /\ cur = 0
    /\ lastCall = NoCall
    /\ fault = NoFault
    /\ ncalls = 0
    /\ observed = <<>>
    /\ types = <<>>
    /\ pb = <<>>
    /\ res = <<>>
    /\ lastValidate = NoRun
    /\ prevValidate = NoRun
    /\ nvalidate = 0
    /\ callers = [c \in 1..MaxCallers |-> Idle]
    /\ syntheses = <<>>
    /\ runs = [c \in 1..MaxCallers |-> Resting]
    /\ sent = NoSend

\* the stored Schema a caller observes through what a call returned: the
\* object itself, or the one its reference leads to
Stored(st, id) ==
    IF id = 0 THEN 0
    ELSE IF st.heap[id].Ref = "" THEN id
    ELSE SchemaFromRef(st.reg, st.heap[id].Ref)

\* the log of the stored Schemas the calls for each type observed
Observe(log, t, id) ==
    [u \in DOMAIN log \cup {t} |->
        IF u = t THEN (IF t \in DOMAIN log THEN log[t] ELSE <<>>) \o <<id>> ELSE log[u]]

\* the state after a call of Registry.Schema that ended as r
Called(r, t, allowRef, hint) ==
    /\ heap' = r.st.heap
    /\ reg' = r.st.reg
    /\ cur' = r.ret
    /\ fault' = r.fault
    /\ lastCall' = [t |-> t, allowRef |-> allowRef, hint |-> hint, ret |-> r.ret]
    /\ observed' = IF r.fault = NoFault /\ GetsRef(deref(t))
                   THEN Observe(observed, deref(t), Stored(r.st, r.ret))
                   ELSE observed

\* s := registry.Schema(t, allowRef, hint); a panic is recovered by the
\* caller (assert.Panics), an overflow of the stack ends the program
CallSchema(t, allowRef, hint) ==
    /\ ncalls < MaxCalls
    /\ nvalidate = 0
    /\ fault /= "stack overflow"
    /\ Called(RegistrySchema([heap |-> heap, reg |-> reg], t, allowRef, hint, 1),
              t, allowRef, hint)
    /\ ncalls' = ncalls + 1
    /\ UNCHANGED <<types, pb, res, lastValidate, prevValidate, nvalidate, callers, syntheses,
                   runs,
                   sent>>

\* the property OnAddOperation adds to an object Schema (transforms.go 54-59)
SchemaProperty ==
    [Schema EXCEPT !.Type = TypeString,
                   !.Format = "uri",
                   !.Description = "A URL to the JSON Schema for this object.",
                   !.ReadOnly = TRUE]

SchemasPath == "/schemas"

\* the fields of the wrapper type: the $schema field, then the exported
\* fields of typ (transforms.go 64-77)
WrapperFields(typ) ==
    LET all == GoTypes[typ].Fields
        exported == SelectSeq(all, LAMBDA f : f.Exported)
    IN  <<"Schema">> \o [i \in 1..Len(exported) |-> exported[i].Name]

\* SchemaLinkTransformer.OnAddOperation for an operation with one response
\* whose content schema is the Schema the last call returned
\* (transforms.go 38-87)
OnAddOperation ==
    /\ cur /= 0
    /\ nvalidate = 0
    /\ fault = NoFault
    /\ LET ref == heap[cur].Ref
           sid == SchemaFromRef(reg, ref)
           s == heap[sid]
           typ == deref(TypeFromRef(reg, ref))
           link == SchemasPath \o "/" \o reg[typ].name \o ".json"
           id == Len(heap) + 1
       IN  IF ref = "" THEN UNCHANGED <<heap, types, fault>>
           ELSE IF sid = 0 \/ (s.Type = TypeObject /\ IsNil(s.Properties))
           THEN /\ fault' = "nil dereference"
                /\ UNCHANGED <<heap, types>>
           ELSE IF s.Type /= TypeObject \/ "$schema" \in PropKeys(s)
           THEN UNCHANGED <<heap, types, fault>>
           ELSE /\ heap' = Append([heap EXCEPT ![sid].Properties =
                                       <<[k \in PropKeys(s) \cup {"$schema"} |->
                                            IF k = "$schema" THEN id ELSE PropGet(s, k)]>>],
                                  SchemaProperty)
                /\ types' = [u \in DOMAIN types \cup {typ} |->
                               IF u = typ
                               THEN [t |-> WrapperFields(typ), ref |-> link,
                                     header |-> "<" \o link \o ">; rel=\"describedBy\""]
                               ELSE types[u]]
                /\ fault' = fault
    /\ UNCHANGED <<reg, cur, lastCall, ncalls, observed, pb, res, lastValidate, prevValidate,
                   nvalidate, callers, syntheses, runs,
                   sent>>


\* len(host) >= 9 && host[:9] == "localhost", for the hosts of Hosts
IsLocalhost(host) == host \in {"localhost", "localhost:8888"}

\* the text written to buf (transforms.go 109-115)
SchemaURL(host, ref) ==
    (IF IsLocalhost(host) THEN "http://" ELSE "https://") \o host \o ref

\* tmp.Field(i).Set(vv.Field(i - 1)) for the fields of the wrapper after
\* the first, from the i-th on; out is tmp so far.  Set panics on a value
\* obtained through an unexported field and on a value of another type.
RECURSIVE SetFields(_, _, _, _)
SetFields(typ, fields, i, out) ==
    LET exported == SelectSeq(GoTypes[typ].Fields, LAMBDA f : f.Exported)
    IN  IF i > Len(exported) THEN [ok |-> TRUE, fields |-> out]
        ELSE IF \/ ~GoTypes[typ].Fields[i].Exported
                \/ GoTypes[typ].Fields[i].Type /= exported[i].Type
        THEN [ok |-> FALSE, fields |-> out]
        ELSE SetFields(typ, fields, i + 1, Append(out, fields[i]))

\* the wrapper value once its fields are set, or the panic of a Set
Wrapped(host, v, info, set) ==
    [host |-> host, v |-> v, found |-> TRUE,
     out |-> IF set.ok THEN [typ |-> "struct", names |-> info.t, fields |-> set.fields]
             ELSE Value("", <<>>),
     header |-> info.header, panic |-> ~set.ok]

\* what Transform returns for the value v of a request to host
\* (transforms.go 89-133)
Transformed(host, v) ==
    LET typ == deref(v.typ)
        same == [host |-> host, v |-> v, found |-> FALSE, out |-> v, header |-> "",
                 panic |-> FALSE]
    IN  IF v.typ = "" THEN same
        ELSE IF Kind(typ) /= "struct" THEN same
        ELSE IF typ \notin DOMAIN types THEN same
        ELSE Wrapped(host, v, types[typ],
                     SetFields(typ, v.fields, 1, <<VStr(SchemaURL(host, types[typ].ref))>>))

\* SchemaLinkTransformer.Transform(ctx, status, v) for a response
Transform(host, v) ==
    /\ fault = NoFault
    /\ sent' = Transformed(host, v)
    /\ UNCHANGED <<heap, reg, cur, lastCall, fault, ncalls, observed, types, pb, res,
                   lastValidate, prevValidate, nvalidate, callers, syntheses, runs>>

\* a caller that does not reset the result before it validates
RunValidateKeep(sid, mode, v, ord) ==
    LET out == Validate([heap |-> heap, reg |-> reg, ord |-> ord], sid,
                        [pb |-> <<>>, errs |-> res, panic |-> FALSE], mode, v)
    IN  /\ pb' = out.pb
        /\ res' = out.errs
        /\ prevValidate' = lastValidate
        /\ lastValidate' = [schema |-> sid, mode |-> mode, value |-> v,
                            errors |-> out.errs, panic |-> out.panic]
        /\ nvalidate' = nvalidate + 1
        /\ UNCHANGED <<heap, reg, cur, lastCall, fault, ncalls, observed, types, callers,
                       syntheses, runs,
                   sent>>

\* pb.Reset(); res.Reset(); Validate(registry, s, pb, mode, input, res)
\* (validate_test.go 679-682, 726-728)
RunValidate(sid, mode, v, ord) ==
    LET out == Validate([heap |-> heap, reg |-> reg, ord |-> ord], sid,
                        [pb |-> <<>>, errs |-> <<>>, panic |-> FALSE], mode, v)
    IN  /\ pb' = out.pb
        /\ res' = out.errs
        /\ prevValidate' = lastValidate
        /\ lastValidate' = [schema |-> sid, mode |-> mode, value |-> v,
                            errors |-> out.errs, panic |-> out.panic]
        /\ nvalidate' = nvalidate + 1
        /\ UNCHANGED <<heap, reg, cur, lastCall, fault, ncalls, observed, types, callers,
                       syntheses, runs,
                   sent>>

\* the first validation of the Schema the last call returned
ValidateInput(mode, v, ord) ==
    /\ cur /= 0
    /\ ncalls <= MaxSetup
    /\ nvalidate = 0
    /\ RunValidate(cur, mode, v, ord)

\* the next iteration of the loop of BenchmarkValidate: the same schema,
\* mode and input again
Revalidate(ord) ==
    /\ nvalidate > 0
    /\ nvalidate < MaxValidate
    /\ RunValidate(lastValidate.schema, lastValidate.mode, lastValidate.value, ord)

Next ==
    \/ \E t \in RootTypes, allowRef \in BOOLEAN, hint \in Hints : CallSchema(t, allowRef, hint)
    \/ OnAddOperation
    \/ \E mode \in Modes, v \in Inputs : \E ord \in KeyOrders(KeysIn(v)) :
            ValidateInput(mode, v, ord)
    \/ \E ord \in KeyOrders(KeysIn(lastValidate.value)) : Revalidate(ord)

Spec == Init /\ [][Next]_vars

(***************************************************************************)
(* Concurrent first use of the registry.  Every step of a caller on the    *)
(* registry is atomic (it is taken under the registry's lock); the         *)
(* synthesis of a type lies between the step that registers its name and  *)
(* ref and the step that stores its Schema, and is serialized per type:    *)
(* a caller that finds the type in progress waits for its Schema.          *)
(***************************************************************************)
ConcTypes == {"RO", "Item", "Nested", "Node"}

\* a never-entered lock on the type: nobody ever waits
InProgressNever(rg, t) == FALSE

\* the type is registered and its Schema is not stored yet
InProgress(rg, t) == t \in DOMAIN rg /\ ~rg[t].done

\* what a caller gets for a registered type: its Schema, or a reference
Hand(c, t, allowRef, waited) ==
    LET st == [heap |-> heap, reg |-> reg]
    IN  /\ heap' = IF allowRef THEN Append(heap, RefSchema(reg[t].ref)) ELSE heap
        /\ callers' = [callers EXCEPT ![c] =
                          [pc |-> "done", t |-> t, allowRef |-> allowRef,
                           ret |-> IF allowRef THEN NewId(st) ELSE reg[t].schema,
                           waited |-> waited]]
        /\ UNCHANGED <<reg, syntheses>>

\* one more synthesis of each of the types
Started(log, ts) ==
    [u \in DOMAIN log \cup ts |->
        (IF u \in DOMAIN log THEN log[u] ELSE 0) + (IF u \in ts THEN 1 ELSE 0)]

\* the entry of caller c into Registry.Schema(t, allowRef, hint)
Enter(c, t, allowRef, hint) ==
    /\ callers[c].pc = "idle"
    /\ IF InProgress(reg, t)
       THEN /\ callers' = [callers EXCEPT ![c] =
                              [pc |-> "wait", t |-> t, allowRef |-> allowRef, ret |-> 0,
                               waited |-> TRUE]]
            /\ UNCHANGED <<heap, reg, syntheses>>
       ELSE IF t \in DOMAIN reg THEN Hand(c, t, allowRef, FALSE)
       ELSE /\ reg' = RegisterPlaceholder(reg, t, hint)
            /\ syntheses' = Started(syntheses, {t})
            /\ callers' = [callers EXCEPT ![c] =
                              [pc |-> "synth", t |-> t, allowRef |-> allowRef, ret |-> 0,
                               waited |-> FALSE]]
            /\ UNCHANGED heap
    /\ UNCHANGED <<cur, lastCall, fault, ncalls, observed, types, pb, res, lastValidate,
                   prevValidate, nvalidate, runs,
                   sent>>

\* the state after the synthesis of caller c ended as out, its Schema
\* stored
Finished(c, out) ==
    /\ out.fault = NoFault
    /\ heap' = out.st.heap
    /\ reg' = out.st.reg
    /\ syntheses' = Started(syntheses, DOMAIN out.st.reg \ DOMAIN reg)
    /\ callers' = [callers EXCEPT ![c].pc = "done", ![c].ret = out.ret]

\* caller c synthesizes the type it registered and stores the Schema
Finish(c) ==
    /\ callers[c].pc = "synth"
    /\ Finished(c, Synthesized(SchemaFromType([heap |-> heap, reg |-> reg], callers[c].t, 1),
                               callers[c].t, callers[c].allowRef))
    /\ UNCHANGED <<cur, lastCall, fault, ncalls, observed, types, pb, res, lastValidate,
                   prevValidate, nvalidate, runs,
                   sent>>

\* a waiting caller goes on once the Schema of its type is stored
Wake(c) ==
    /\ callers[c].pc = "wait"
    /\ ~InProgress(reg, callers[c].t)
    /\ Hand(c, callers[c].t, callers[c].allowRef, TRUE)
    /\ UNCHANGED <<cur, lastCall, fault, ncalls, observed, types, pb, res, lastValidate,
                   prevValidate, nvalidate, runs,
                   sent>>

NextConc ==
    \/ \E c \in 1..MaxCallers, t \in ConcTypes, allowRef \in BOOLEAN, hint \in Hints :
            Enter(c, t, allowRef, hint)
    \/ \E c \in 1..MaxCallers : Finish(c)
    \/ \E c \in 1..MaxCallers : Wake(c)

SpecConc == Init /\ [][NextConc]_vars

(***************************************************************************)
(* Concurrent validations.  The registry holds the finalized Schema of one *)
(* type; every goroutine validates against it with a PathBuffer and a      *)
(* ValidateResult of its own, which it resets before each run (the loop of *)
(* BenchmarkValidate, run by several goroutines at once).                  *)
(***************************************************************************)
ShareTypes == {"Form", "Nested", "Choice"}

ShareInputs ==
    { VObj("items" :> VArr(<<>>)),
      VObj(("extra" :> VNum(1)) @@ ("other" :> VNum(2))),
      VObj("value" :> VStr("a")) }

\* the state once registry.Schema(t, false, "TestInput") has returned r on
\* a new registry
Shared(r, t) ==
    /\ heap = r.st.heap
    /\ reg = r.st.reg
    /\ cur = r.ret
    /\ fault = r.fault
    /\ lastCall = [t |-> t, allowRef |-> FALSE, hint |-> "TestInput", ret |-> r.ret]
    /\ observed = Observe(<<>>, t, r.ret)

InitShare ==
    /\ \E t \in ShareTypes :
          Shared(RegistrySchema([heap |-> <<>>, reg |-> <<>>], t, FALSE, "TestInput", 1), t)
    /\ ncalls = 1
    /\ types = <<>>
    /\ pb = <<>>
    /\ res = <<>>
    /\ lastValidate = NoRun
    /\ prevValidate = NoRun
    /\ nvalidate = 0
    /\ callers = [c \in 1..MaxCallers |-> Idle]
    /\ syntheses = <<>>
    /\ runs = [c \in 1..MaxCallers |-> Resting]
    /\ sent = NoSend

\* pb.Reset(); res.Reset() of goroutine c, which then calls Validate
Begin(c, mode, v, ord) ==
    /\ runs[c].pc \in {"idle", "done"}
    /\ runs' = [runs EXCEPT ![c] = [pc |-> "run", mode |-> mode, value |-> v, ord |-> ord,
                                    pb |-> <<>>, res |-> <<>>, panic |-> FALSE]]
    /\ UNCHANGED <<heap, reg, cur, lastCall, fault, ncalls, observed, types, pb, res,
                   lastValidate, prevValidate, nvalidate, callers, syntheses,
                   sent>>

\* a Validate that keeps the value it saw as the example of the Schema
WalkedMarking(c, out) ==
    /\ runs' = [runs EXCEPT ![c].pc = "done", ![c].pb = out.pb, ![c].res = out.errs,
                            ![c].panic = out.panic]
    /\ heap' = [heap EXCEPT ![cur].Examples = <<runs[c].value>>]
    /\ UNCHANGED reg

\* the return of the Validate call of goroutine c, which ended as out
Walked(c, out) ==
    /\ runs' = [runs EXCEPT ![c].pc = "done", ![c].pb = out.pb, ![c].res = out.errs,
                            ![c].panic = out.panic]
    /\ UNCHANGED <<heap, reg>>

\* Validate(registry, s, pb, mode, input, res) of goroutine c
Walk(c) ==
    /\ runs[c].pc = "run"
    /\ Walked(c, Validate([heap |-> heap, reg |-> reg, ord |-> runs[c].ord], cur,
                          [pb |-> runs[c].pb, errs |-> runs[c].res, panic |-> FALSE],
                          runs[c].mode, runs[c].value))
    /\ UNCHANGED <<cur, lastCall, fault, ncalls, observed, types, pb, res, lastValidate,
                   prevValidate, nvalidate, callers, syntheses,
                   sent>>

NextShare ==
    \/ \E c \in 1..MaxCallers, mode \in Modes, v \in ShareInputs :
            \E ord \in KeyOrders(KeysIn(v)) : Begin(c, mode, v, ord)
    \/ \E c \in 1..MaxCallers : Walk(c)

SpecShare == InitShare /\ [][NextShare]_vars

(***************************************************************************)
(* A service that registers its response types: the Schema calls made for  *)
(* them and the operations added with the link transformer.                *)
(***************************************************************************)
\* the types a service declares for its operations
ServeTypes == {"string", "Item", "Twin", "Opt"}

\* the decoded values of the requests
ServeInputs ==
    { VStr("a"),
      VObj("value" :> VStr("a")),
      VObj(("c" :> VObj("value" :> VNum(5))) @@ ("x" :> VNum(1))) }

\* what the PathBuffer of a request holds when its first Validate is called
ServePrefixes == {<<>>, <<[index |-> FALSE, seg |-> "body"]>>}

\* the state after a Validate of a request handler that ended as out
Served(out, sid, mode, v) ==
    /\ pb' = out.pb
    /\ res' = out.errs
    /\ prevValidate' = lastValidate
    /\ lastValidate' = [schema |-> sid, mode |-> mode, value |-> v,
                        errors |-> out.errs, panic |-> out.panic]
    /\ nvalidate' = nvalidate + 1
    /\ UNCHANGED <<heap, reg, cur, lastCall, fault, ncalls, observed, types, callers,
                   syntheses, runs,
                   sent>>

\* a request arrives: pb := NewPathBuffer(...); res := &ValidateResult{};
\* Validate(registry, schema, pb, mode, input, res)
\* (humachi_test.go 187-192)
Receive(prefix, mode, v, ord) ==
    /\ cur /= 0
    /\ fault = NoFault
    /\ nvalidate = 0
    /\ Served(Validate([heap |-> heap, reg |-> reg, ord |-> ord], cur,
                       [pb |-> prefix, errs |-> <<>>, panic |-> FALSE], mode, v),
              cur, mode, v)

\* the next Validate of the handler on the same PathBuffer and result, with
\* no Reset in between (humachi_test.go 195, 201, 215)
ValidateAgain(ord) ==
    /\ nvalidate > 0
    /\ nvalidate < MaxValidate
    /\ ~lastValidate.panic
    /\ Served(Validate([heap |-> heap, reg |-> reg, ord |-> ord], lastValidate.schema,
                       [pb |-> pb, errs |-> res, panic |-> FALSE],
                       lastValidate.mode, lastValidate.value),
              lastValidate.schema, lastValidate.mode, lastValidate.value)

NextServe ==
    \/ \E t \in ServeTypes, allowRef \in BOOLEAN, hint \in Hints : CallSchema(t, allowRef, hint)
    \/ OnAddOperation
    \/ \E prefix \in ServePrefixes, mode \in Modes, v \in ServeInputs :
            \E ord \in KeyOrders(KeysIn(v)) : Receive(prefix, mode, v, ord)
    \/ \E ord \in KeyOrders(KeysIn(lastValidate.value)) : ValidateAgain(ord)

SpecServe == Init /\ [][NextServe]_vars

(***************************************************************************)
(* The link transformer: the response types of the operations are          *)
(* registered, the operations are added, and responses are transformed.    *)
(***************************************************************************)
\* the types of the responses the operations declare
LinkTypes == {"string", "Form", "Resp"}

\* the Host header of a request
Hosts == {"localhost:8888", "example.com"}

\* the values the handlers respond with: nil, a string, a Form, a Resp and
\* a value of a record type no operation declares
Responses ==
    { Value("", <<>>),
      Value("string", <<VStr("a")>>),
      Value("Form", <<VNum(1), VStr("a"), VStr("s"), VNull>>),
      Value("Resp", <<VStr("a"), VStr("n"), VNum(1)>>),
      Value("Item", <<VStr("a")>>) }

NextLink ==
    \/ \E t \in LinkTypes, allowRef \in BOOLEAN, hint \in Hints : CallSchema(t, allowRef, hint)
    \/ OnAddOperation
    \/ \E host \in Hosts, v \in Responses : Transform(host, v)

SpecLink == Init /\ [][NextLink]_vars


C3_SynthesisTerminates == fault /= "stack overflow"

(***************************************************************************)
(* What a validation has to find, stated node by node.  A node is a part   *)
(* of the input value together with the schema that governs it and its     *)
(* path; below a node whose kind does not match its schema's type there    *)
(* are no nodes.                                                           *)
(***************************************************************************)
Key(path, k) == Append(path, [index |-> FALSE, seg |-> k])

Index(path, i) == Append(path, [index |-> TRUE, seg |-> ToString(i)])

RECURSIVE Nodes(_, _, _, _)
Nodes(ctx, sid, path, v) ==
    LET id == Resolve(ctx, sid)
        s == ctx.heap[id]
        self == {[sid |-> id, path |-> path, v |-> v]}
    IN  IF id = 0 THEN {}
        ELSE IF ~KindMatches(s.Type, v) THEN self
        ELSE IF s.Type = TypeArray
        THEN self \cup UNION {Nodes(ctx, s.Items, Index(path, i - 1), v.a[i]) :
                                 i \in 1..Len(v.a)}
        ELSE IF s.Type = TypeObject
        THEN self
             \cup UNION {Nodes(ctx, PropGet(s, k), Key(path, k), v.o[k]) :
                            k \in PropKeys(s) \cap DOMAIN v.o}
             \cup (IF s.AdditionalProperties.kind = "schema"
                   THEN UNION {Nodes(ctx, s.AdditionalProperties.id, Key(path, k), v.o[k]) :
                                  k \in DOMAIN v.o}
                   ELSE {})
        ELSE self

Record(path, msg, v) == [location |-> PathString(path), message |-> msg, value |-> v]

\* the constraints of a schema on a value of its type and their messages
Constraints(s, v) ==
    (IF v.k = "num"
     THEN { [failed |-> ~IsNil(s.Minimum) /\ v.n < s.Minimum[1], message |-> s.msgMinimum],
            [failed |-> ~IsNil(s.ExclusiveMinimum) /\ v.n <= s.ExclusiveMinimum[1],
             message |-> s.msgExclusiveMinimum],
            [failed |-> ~IsNil(s.Maximum) /\ v.n > s.Maximum[1], message |-> s.msgMaximum],
            [failed |-> ~IsNil(s.ExclusiveMaximum) /\ v.n >= s.ExclusiveMaximum[1],
             message |-> s.msgExclusiveMaximum],
            [failed |-> ~IsNil(s.MultipleOf) /\ s.MultipleOf[1] /= 0
                        /\ v.n % s.MultipleOf[1] /= 0, message |-> s.msgMultipleOf] }
     ELSE {})
    \cup
    (IF v.k = "str"
     THEN { [failed |-> ~IsNil(s.MinLength) /\ Len(v.s) < s.MinLength[1],
             message |-> s.msgMinLength],
            [failed |-> ~IsNil(s.MaxLength) /\ Len(v.s) > s.MaxLength[1],
             message |-> s.msgMaxLength],
            [failed |-> s.patternRe /= "" /\ ~PatternMatches(s.patternRe, v.s),
             message |-> s.msgPattern] }
     ELSE {})
    \cup
    (IF v.k = "arr"
     THEN { [failed |-> ~IsNil(s.MinItems) /\ Len(v.a) < s.MinItems[1],
             message |-> s.msgMinItems],
            [failed |-> ~IsNil(s.MaxItems) /\ Len(v.a) > s.MaxItems[1],
             message |-> s.msgMaxItems],
            [failed |-> s.UniqueItems /\ \E i, j \in 1..Len(v.a) : i /= j /\ v.a[i] = v.a[j],
             message |-> "expected array items to be unique"] }
     ELSE {})
    \cup
    (IF v.k = "obj"
     THEN { [failed |-> ~IsNil(s.MinProperties)
                        /\ Cardinality(DOMAIN v.o) < s.MinProperties[1],
             message |-> s.msgMinProperties],
            [failed |-> ~IsNil(s.MaxProperties)
                        /\ Cardinality(DOMAIN v.o) > s.MaxProperties[1],
             message |-> s.msgMaxProperties] }
     ELSE {})
    \cup
    { [failed |-> Len(s.Enum) > 0 /\ \A i \in 1..Len(s.Enum) : s.Enum[i] /= v,
       message |-> s.msgEnum] }

\* the violations of one node
Violations(ctx, n, mode) ==
    LET s == ctx.heap[n.sid]
        v == n.v
        declared == IF s.Type = TypeObject THEN PropKeys(s) ELSE {}
    IN  IF ~KindMatches(s.Type, v) THEN {Record(n.path, ExpectedMessage(s.Type), v)}
        ELSE {Record(n.path, c.message, v) : c \in {x \in Constraints(s, v) : x.failed}}
             \cup {Record(n.path, MsgRequiredGet(s, k), v) :
                      k \in {x \in declared \ DOMAIN v.o :
                                RequiredInMode(s, ctx.heap[PropGet(s, x)], x, mode)}}
             \cup {Record(n.path, "write only property is non-zero", v.o[k]) :
                      k \in {x \in declared \cap DOMAIN v.o :
                                /\ mode = ModeReadFromServer
                                /\ ctx.heap[PropGet(s, x)].WriteOnly
                                /\ ~IsZero(v.o[x])}}
             \cup (IF s.Type = TypeObject /\ s.AdditionalProperties = APBool(FALSE)
                   THEN {Record(Key(n.path, k), "unexpected property", v) :
                            k \in DOMAIN v.o \ declared}
                   ELSE {})

\* the run the state records: its context, its nodes, its records
Ran == nvalidate > 0 /\ ~lastValidate.panic

RunCtx == [heap |-> heap, reg |-> reg]

RunNodes == Nodes(RunCtx, lastValidate.schema, <<>>, lastValidate.value)

Recorded == {res[i] : i \in 1..Len(res)}

\* C4: a single top-level Validate call records every violation present in
\* the value: each node that fails a constraint contributes its violation,
\* whatever other nodes fail; only below a node of the wrong kind is
\* nothing looked at.
C4_EveryViolationRecorded ==
    Ran => \A n \in RunNodes : Violations(RunCtx, n, lastValidate.mode) \subseteq Recorded

\* a run on a value in which two different nodes each fail a constraint
C4_Witness ==
    /\ Ran
    /\ \E n, m \in RunNodes :
          /\ n.path /= m.path
          /\ Violations(RunCtx, n, lastValidate.mode) /= {}
          /\ Violations(RunCtx, m, lastValidate.mode) /= {}

\* the paths of the parts of a value below the path of the value
RECURSIVE Below(_, _)
Below(path, v) ==
    CASE v.k = "obj" -> UNION {{Key(path, k)} \cup Below(Key(path, k), v.o[k]) :
                                  k \in DOMAIN v.o}
      [] v.k = "arr" -> UNION {{Index(path, i - 1)} \cup Below(Index(path, i - 1), v.a[i]) :
                                  i \in 1..Len(v.a)}
      [] OTHER -> {}

Mismatched(n) == ~KindMatches(heap[n.sid].Type, n.v)

\* C5: a node whose value has not the kind its schema's type asks for gets
\* exactly one record, the generic "expected <type>" one; no other
\* constraint of the node and nothing below it is checked; every other
\* node, its siblings among them, is still validated.
C5_TypeMismatchStopsNode ==
    Ran => \A n \in {x \in RunNodes : Mismatched(x)} :
              /\ Cardinality({i \in 1..Len(res) : res[i].location = PathString(n.path)}) = 1
              /\ Record(n.path, ExpectedMessage(heap[n.sid].Type), n.v) \in Recorded
              /\ \A p \in Below(n.path, n.v) :
                    \A i \in 1..Len(res) : res[i].location /= PathString(p)
              /\ \A m \in RunNodes \ {n} :
                    Violations(RunCtx, m, lastValidate.mode) \subseteq Recorded

\* a node of the wrong kind that has parts below it, and a sibling of it
\* that fails a constraint of its own
C5_Witness ==
    /\ Ran
    /\ \E n, m \in RunNodes :
          /\ Mismatched(n)
          /\ Below(n.path, n.v) /= {}
          /\ m.path /= n.path
          /\ Len(m.path) = Len(n.path)
          /\ SubSeq(m.path, 1, Len(m.path) - 1) = SubSeq(n.path, 1, Len(n.path) - 1)
          /\ Violations(RunCtx, m, lastValidate.mode) /= {}

\* the object nodes of the run, each with a declared property of its schema
ObjectNodes == {n \in RunNodes : heap[n.sid].Type = TypeObject /\ ~Mismatched(n)}

RequiredMessage(k) == "expected required property " \o k \o " to be present"

\* how many records of the run are this one
Count(r) == Cardinality({i \in 1..Len(res) : res[i] = r})

\* C6: for every readOnly property of an object schema, a client-to-server
\* validation records no required-property violation, absent or present;
\* a server-to-client validation of an object without the property records
\* exactly the violation "expected required property <name> to be present",
\* and with a conforming value it records nothing for the property.
C6_ReadOnlyByMode ==
    Ran => \A n \in ObjectNodes :
             \A k \in {x \in PropKeys(heap[n.sid]) : heap[PropGet(heap[n.sid], x)].ReadOnly} :
                LET required == Record(n.path, RequiredMessage(k), n.v)
                    absent == k \notin DOMAIN n.v.o
                    here == {i \in 1..Len(res) : res[i].location = PathString(Key(n.path, k))}
                IN  /\ lastValidate.mode = ModeWriteToServer => Count(required) = 0
                    /\ lastValidate.mode = ModeReadFromServer /\ absent =>
                          Count(required) = 1
                    /\ lastValidate.mode = ModeReadFromServer /\ ~absent
                       /\ (\A m \in RunNodes : m.path = Key(n.path, k)
                                                 => Violations(RunCtx, m, lastValidate.mode) = {})
                          => Count(required) = 0 /\ here = {}

\* the root node of the run and the record type its schema was made from
Root == [sid |-> Resolve(RunCtx, lastValidate.schema), path |-> <<>>,
         v |-> lastValidate.value]

RootType == deref(lastCall.t)

\* the property names of the fields of a record type that carry tag:"true"
Tagged(t, tag) ==
    {FieldName(GoTypes[t].Fields[i]) :
        i \in {j \in 1..Len(GoTypes[t].Fields) : TagGet(GoTypes[t].Fields[j], tag) = "true"}}

WriteOnlyProps(n) ==
    {k \in PropKeys(heap[n.sid]) : heap[PropGet(heap[n.sid], k)].WriteOnly}

WriteOnlyMessage == "write only property is non-zero"

\* C7: a field tagged writeOnly is a writeOnly property of its schema, and
\* for every writeOnly property a server-to-client validation of a
\* non-zero value records "write only property is non-zero", of a zero or
\* absent value it records no such violation, and a client-to-server
\* validation never records one.
C7_WriteOnlyByMode ==
    Ran =>
      /\ Kind(RootType) = "struct" /\ Root \in ObjectNodes
            => Tagged(RootType, "writeOnly") \subseteq WriteOnlyProps(Root)
      /\ lastValidate.mode = ModeWriteToServer
            => \A i \in 1..Len(res) : res[i].message /= WriteOnlyMessage
      /\ lastValidate.mode = ModeReadFromServer
            => \A n \in ObjectNodes :
                  /\ \A k \in WriteOnlyProps(n) \cap DOMAIN n.v.o :
                        Count(Record(n.path, WriteOnlyMessage, n.v.o[k]))
                            = IF IsZero(n.v.o[k]) THEN 0 ELSE 1
                  /\ \A i \in 1..Len(res) :
                        res[i].location = PathString(n.path) /\ res[i].message = WriteOnlyMessage
                            => \E k \in WriteOnlyProps(n) \cap DOMAIN n.v.o : res[i].value = n.v.o[k]

\* a server-to-client run on an object whose writeOnly field has a
\* non-zero value, which was recorded
C7_Witness ==
    /\ Ran
    /\ lastValidate.mode = ModeReadFromServer
    /\ Kind(RootType) = "struct"
    /\ Root \in ObjectNodes
    /\ \E k \in Tagged(RootType, "writeOnly") \cap DOMAIN Root.v.o :
          /\ ~IsZero(Root.v.o[k])
          /\ Record(<<>>, WriteOnlyMessage, Root.v.o[k]) \in Recorded

\* how many records of the run have this location and this message
CountAt(path, msg) ==
    Cardinality({i \in 1..Len(res) :
                    res[i].location = PathString(path) /\ res[i].message = msg})

\* the object nodes whose schema forbids additional properties
ClosedNodes == {n \in ObjectNodes : heap[n.sid].AdditionalProperties = APBool(FALSE)}

\* C8: the schema synthesized from a record type forbids additional
\* properties, and for such a schema and every input object each input key
\* that is not a key of Properties gets an "unexpected property" violation
\* and no key of Properties gets one.
C8_UnexpectedProperty ==
    Ran =>
      /\ Kind(RootType) = "struct" /\ Root \in ObjectNodes => Root \in ClosedNodes
      /\ \A n \in ClosedNodes :
            \A k \in DOMAIN n.v.o :
               CountAt(Key(n.path, k), "unexpected property")
                   = IF k \in PropKeys(heap[n.sid]) THEN 0 ELSE 1

\* an input object for a record type that has a key of Properties and a
\* key that is none
C8_Witness ==
    /\ Ran
    /\ Kind(RootType) = "struct"
    /\ Root \in ClosedNodes
    /\ \E k, x \in DOMAIN Root.v.o :
          /\ k \in PropKeys(heap[Root.sid])
          /\ x \notin PropKeys(heap[Root.sid])
          /\ CountAt(Key(<<>>, x), "unexpected property") = 1

\* C9: for every object node, at the root or nested in an array element or
\* a property, each declared property that is required in the mode of the
\* run and absent from the input gets exactly one violation, whose message
\* names the property; a property that is present or not required gets
\* none.
C9_RequiredAbsent ==
    Ran => \A n \in ObjectNodes :
              \A k \in PropKeys(heap[n.sid]) :
                 CountAt(n.path, RequiredMessage(k))
                     = IF /\ k \notin DOMAIN n.v.o
                          /\ RequiredInMode(heap[n.sid], heap[PropGet(heap[n.sid], k)], k,
                                            lastValidate.mode)
                       THEN 1 ELSE 0

\* how many times a record occurs in a list of records
Times(errs, r) == Cardinality({i \in 1..Len(errs) : errs[i] = r})

Repeated ==
    /\ nvalidate >= 2
    /\ prevValidate.schema = lastValidate.schema
    /\ prevValidate.mode = lastValidate.mode
    /\ prevValidate.value = lastValidate.value

Returned == {c \in 1..MaxCallers : callers[c].pc = "done"}

Messages(s) ==
    << s.msgEnum, s.msgMinimum, s.msgExclusiveMinimum, s.msgMaximum, s.msgExclusiveMaximum,
       s.msgMultipleOf, s.msgMinLength, s.msgMaxLength, s.msgPattern, s.msgMinItems,
       s.msgMaxItems, s.msgMinProperties, s.msgMaxProperties, s.msgRequired >>

\* PrecomputeMessages on the Schema and then once more on what it left
Twice(s) == PrecomputeMessages(PrecomputeMessages(s).s)

\* C11: PrecomputeMessages is idempotent: on every Schema the program
\* builds, whether its messages were computed before or not, a second call
\* with the constraint fields unchanged leaves every msg field and every
\* entry of the required-message table as the first call left them.
C11_PrecomputeIdempotent ==
    \A i \in 1..Len(heap) :
        PrecomputeMessages(heap[i]).ok =>
            /\ Twice(heap[i]).ok
            /\ Messages(Twice(heap[i]).s) = Messages(PrecomputeMessages(heap[i]).s)

\* the heap holds a Schema whose messages the synthesizer computed, with a
\* bound and a required property, and one with an enum whose message was
\* never computed, on which the first call changes the messages
C11_Witness ==
    /\ \E i \in 1..Len(heap) :
          /\ ~IsNil(heap[i].MinLength)
          /\ heap[i].msgMinLength /= ""
          /\ Messages(PrecomputeMessages(heap[i]).s) = Messages(heap[i])
    /\ \E i \in 1..Len(heap) :
          /\ MsgRequiredGet(heap[i], "value") /= ""
          /\ Messages(PrecomputeMessages(heap[i]).s) = Messages(heap[i])
    /\ \E i \in 1..Len(heap) :
          /\ heap[i].Enum /= <<>>
          /\ Messages(PrecomputeMessages(heap[i]).s) /= Messages(heap[i])

\* the annotations by the kind of value they take
BoolTags == {"uniqueItems", "readOnly", "writeOnly", "deprecated"}

NumberTags == {"minimum", "exclusiveMinimum", "maximum", "exclusiveMaximum", "multipleOf",
               "minLength", "maxLength", "minItems", "maxItems", "minProperties",
               "maxProperties"}

\* can the text of a default, example or enum member be read as a value of
\* the type: any text is a string, a list of texts a slice of strings,
\* otherwise the text is JSON of a kind that converts to the type
Readable(t, toks) ==
    \/ Kind(t) = "string"
    \/ Kind(t) = "slice" /\ Kind(Elem(t)) = "string" /\ toks[1] /= "["
    \/ /\ Concat(toks) \in DOMAIN JSONLits
       /\ \/ JSONLits[Concat(toks)].k = "null"
          \/ ConvertibleTo(JSONLits[Concat(toks)], t)

\* the type of the members of the enum of a field
MemberType(f) ==
    IF Kind(deref(f.Type)) \in {"slice", "array"} /\ Kind(Elem(deref(f.Type))) /= "uint8"
    THEN Elem(f.Type) ELSE f.Type

\* a field one of whose annotations has a malformed value
Malformed(f) ==
    \/ \E g \in BoolTags : TagGet(f, g) \notin {"", "true", "false"}
    \/ \E g \in NumberTags : TagGet(f, g) /= "" /\ TagGet(f, g) \notin DOMAIN Numerals
    \/ TagGet(f, "pattern") /= "" /\ TagGet(f, "pattern") \notin ValidPatterns
    \/ \E g \in {"default", "example"} :
          TagTokens(f, g) /= <<>> /\ ~Readable(f.Type, TagTokens(f, g))
    \/ /\ TagTokens(f, "enum") /= <<>>
       /\ \E i \in 1..Len(Split(TagTokens(f, "enum"))) :
             ~Readable(MemberType(f), <<Split(TagTokens(f, "enum"))[i]>>)

\* the fields of a record type that become properties and are malformed
MalformedFields(t) ==
    {i \in 1..Len(GoTypes[t].Fields) :
        /\ ~GoTypes[t].Fields[i].Anonymous
        /\ FieldName(GoTypes[t].Fields[i]) /= "-"
        /\ Kind(deref(GoTypes[t].Fields[i].Type)) /= "func"
        /\ Malformed(GoTypes[t].Fields[i])}

\* C12: a call of Registry.Schema that synthesizes a record type with a
\* malformed annotation value (a boolean annotation other than true or
\* false, a non-numeric bound, a default, example or enum member that does
\* not convert to the field's type, an invalid pattern) ends with a
\* construction fault and returns no Schema, so that no Validate follows.
C12_MalformedTagFaults ==
    [][ (/\ ncalls' = ncalls + 1
         /\ Kind(deref(lastCall'.t)) = "struct"
         /\ deref(lastCall'.t) \notin DOMAIN reg
         /\ MalformedFields(deref(lastCall'.t)) /= {})
        => (fault' = "invalid tag" /\ cur' = 0 /\ lastCall'.ret = 0) ]_vars

\* the call for a record type with a malformed annotation has ended with
\* the fault
C12_Witness ==
    /\ ncalls = 1
    /\ MalformedFields(deref(lastCall.t)) /= {}
    /\ fault = "invalid tag"
    /\ cur = 0

\* the property Schema a finished record type holds for its i-th field, or
\* the nil pointer
FieldSchema(t, i) == PropGet(heap[reg[t].schema], FieldName(GoTypes[t].Fields[i]))

\* the record types whose Schema is stored
Stocked == {t \in DOMAIN reg : reg[t].done /\ reg[t].schema /= 0}

\* C13: the constraints a type implies are on the Schema of every field of
\* that type that has no annotation of its own for them: the Schema of an
\* unsigned integer field has minimum 0, and the Schema of a field that is
\* an array of fixed length has minItems = maxItems = the length.
C13_TypeConstraintsKept ==
    \A t \in Stocked :
        \A i \in 1..Len(GoTypes[t].Fields) :
            LET f == GoTypes[t].Fields[i]
                p == FieldSchema(t, i)
            IN  (~f.Anonymous /\ p /= 0) =>
                  /\ (Kind(deref(f.Type)) = "uint" /\ TagGet(f, "minimum") = "")
                        => heap[p].Minimum = <<0>>
                  /\ (Kind(deref(f.Type)) = "array" /\ TagGet(f, "minItems") = ""
                      /\ TagGet(f, "maxItems") = "")
                        => /\ heap[p].MinItems = <<GoTypes[deref(f.Type)].Len>>
                           /\ heap[p].MaxItems = <<GoTypes[deref(f.Type)].Len>>

\* the named fields of a record type and of the types it embeds, each with
\* the depth of embedding at which it is declared
RECURSIVE Declared(_, _)
Declared(t, depth) ==
    LET fs == GoTypes[t].Fields
    IN  {[f |-> fs[i], depth |-> depth] : i \in {j \in 1..Len(fs) : ~fs[j].Anonymous}}
        \cup UNION {Declared(deref(fs[i].Type), depth + 1) :
                       i \in {j \in 1..Len(fs) : /\ fs[j].Anonymous
                                                 /\ Kind(deref(fs[j].Type)) = "struct"}}

\* the declarations of the serialized name k that no other is shallower than
Outermost(t, k) ==
    {x \in Declared(t, 0) :
        /\ FieldName(x.f) = k
        /\ \A y \in Declared(t, 0) : FieldName(y.f) = k => x.depth <= y.depth}

\* C14: when several fields of a record type, direct or reached through
\* embedded types, have the same serialized name, the property Schema kept
\* is the one of a declaration at the smallest depth of embedding, whatever
\* the order of the embedded types: it carries that field's description.
C14_OutermostWins ==
    \A t \in Stocked :
        \A k \in PropKeys(heap[reg[t].schema]) :
            Outermost(t, k) /= {} =>
                \E x \in Outermost(t, k) :
                    heap[PropGet(heap[reg[t].schema], k)].Description = TagGet(x.f, "doc")

\* a Schema that carries nothing but its reference
PureRef(s) ==
    /\ s.Ref /= ""
    /\ s.Type = "" /\ s.Description = "" /\ s.Format = "" /\ s.ContentEncoding = ""
    /\ s.Default = <<>> /\ s.Examples = <<>> /\ s.Enum = <<>>
    /\ s.Items = 0 /\ s.AdditionalProperties = APNil /\ IsNil(s.Properties)
    /\ IsNil(s.Minimum) /\ IsNil(s.ExclusiveMinimum) /\ IsNil(s.Maximum)
    /\ IsNil(s.ExclusiveMaximum) /\ IsNil(s.MultipleOf)
    /\ IsNil(s.MinLength) /\ IsNil(s.MaxLength) /\ s.Pattern = ""
    /\ IsNil(s.MinItems) /\ IsNil(s.MaxItems) /\ ~s.UniqueItems
    /\ IsNil(s.Required) /\ IsNil(s.MinProperties) /\ IsNil(s.MaxProperties)
    /\ ~s.ReadOnly /\ ~s.WriteOnly /\ ~s.Deprecated

\* C15: every Schema the program has built, stored in the registry or part
\* of a synthesized tree, is a pure reference or has an empty Ref; the
\* property Schema of a field whose type is a record is a pure reference
\* whatever annotations the field carries.
C15_RefOrConstraints ==
    /\ \A i \in 1..Len(heap) : heap[i].Ref = "" \/ PureRef(heap[i])
    /\ \A t \in Stocked :
          \A i \in 1..Len(GoTypes[t].Fields) :
              (/\ ~GoTypes[t].Fields[i].Anonymous
               /\ Kind(deref(GoTypes[t].Fields[i].Type)) = "struct"
               /\ FieldSchema(t, i) /= 0)
                  => PureRef(heap[FieldSchema(t, i)])

\* the fields of a record type in the order of the loop over them
FieldsOf(t) == getFields(t, 1).fields

\* does the i-th of these fields become a property: it is not named "-",
\* its type has a Schema, and no earlier field took its name
Captured(infos, i) ==
    /\ FieldName(infos[i].Field) /= "-"
    /\ Kind(deref(infos[i].Field.Type)) /= "func"
    /\ \A j \in 1..(i - 1) :
          \/ FieldName(infos[j].Field) /= FieldName(infos[i].Field)
          \/ Kind(deref(infos[j].Field.Type)) = "func"

\* the names of the captured fields that are not marked optional, in order
RequiredNames(t) ==
    LET infos == FieldsOf(t)
        idx == SelectSeq([i \in 1..Len(infos) |-> i],
                         LAMBDA i : Captured(infos, i) /\ ~FieldOmit(infos[i].Field))
    IN  [j \in 1..Len(idx) |-> FieldName(infos[idx[j]].Field)]

\* C16: for the object Schema of every record type, Required is exactly
\* the list of the captured property names whose field is not optional,
\* every name in it is a key of Properties, the required lookup set holds
\* exactly these names, and all this also holds once OnAddOperation has
\* added its property to the Schema.
C16_RequiredOfProperties ==
    \A t \in Stocked :
        LET s == heap[reg[t].schema]
        IN  /\ ~IsNil(s.Required)
            /\ s.Required[1] = RequiredNames(t)
            /\ \A j \in 1..Len(s.Required[1]) : s.Required[1][j] \in PropKeys(s)
            /\ ~IsNil(s.requiredMap)
            /\ s.requiredMap[1] = {s.Required[1][j] : j \in 1..Len(s.Required[1])}

\* the Schema of a record type with a required field, an optional field and
\* fields that are not captured, after OnAddOperation has added $schema
C16_Witness ==
    \E t \in Stocked :
        LET s == heap[reg[t].schema]
        IN  /\ "$schema" \in PropKeys(s)
            /\ Len(s.Required[1]) >= 1
            /\ Cardinality(PropKeys(s)) >= Len(s.Required[1]) + 2
            /\ Len(FieldsOf(t)) > Cardinality(PropKeys(s))

\* the message of an enum violation: all the members joined by a comma
EnumMessage(enum) == "expected value to be one of \"" \o JoinValues(enum, ", ") \o "\""

\* the members an enum annotation of strings lists
StringMembers(f) ==
    [j \in 1..Len(Split(TagTokens(f, "enum"))) |-> VStr(Split(TagTokens(f, "enum"))[j])]

\* the nodes of the run whose value is of the right kind and is none of the
\* members of the enum of their schema
OutsideEnum ==
    {n \in RunNodes :
        /\ ~Mismatched(n)
        /\ Len(heap[n.sid].Enum) > 0
        /\ \A i \in 1..Len(heap[n.sid].Enum) : heap[n.sid].Enum[i] /= n.v}

\* C17: the enum of an array field is on the item Schema and not on the
\* array Schema, and every value outside the enum of its schema, an element
\* of such an array as well as the value of a field that is no array, gets
\* the violation whose message lists all the members joined by a comma.
C17_ArrayEnum ==
    /\ \A t \in Stocked :
          \A i \in 1..Len(GoTypes[t].Fields) :
              LET f == GoTypes[t].Fields[i]
                  p == FieldSchema(t, i)
              IN  (/\ ~f.Anonymous
                   /\ p /= 0
                   /\ Kind(deref(f.Type)) = "slice"
                   /\ Kind(Elem(deref(f.Type))) = "string"
                   /\ TagTokens(f, "enum") /= <<>>)
                      => /\ heap[p].Enum = <<>>
                         /\ heap[p].Items /= 0
                         /\ heap[heap[p].Items].Enum = StringMembers(f)
    /\ Ran => \A n \in OutsideEnum :
                 Record(n.path, EnumMessage(heap[n.sid].Enum), n.v) \in Recorded

\* the last call asked for a reference to a record type and got it, and the
\* synthesis of the type has ended
GotRef ==
    /\ lastCall.allowRef
    /\ fault = NoFault
    /\ cur /= 0
    /\ cur = lastCall.ret
    /\ GetsRef(deref(lastCall.t))
    /\ deref(lastCall.t) \in DOMAIN reg
    /\ reg[deref(lastCall.t)].done

Reflects(s) ==
    LET p == PrecomputeMessages(s).s
    IN  /\ Len(s.Enum) > 0 => s.msgEnum = p.msgEnum
        /\ ~IsNil(s.Minimum) => s.msgMinimum = p.msgMinimum
        /\ ~IsNil(s.ExclusiveMinimum) => s.msgExclusiveMinimum = p.msgExclusiveMinimum
        /\ ~IsNil(s.Maximum) => s.msgMaximum = p.msgMaximum
        /\ ~IsNil(s.ExclusiveMaximum) => s.msgExclusiveMaximum = p.msgExclusiveMaximum
        /\ ~IsNil(s.MultipleOf) => s.msgMultipleOf = p.msgMultipleOf
        /\ ~IsNil(s.MinLength) => s.msgMinLength = p.msgMinLength
        /\ ~IsNil(s.MaxLength) => s.msgMaxLength = p.msgMaxLength
        /\ s.Pattern /= "" => s.msgPattern = p.msgPattern /\ s.patternRe = p.patternRe
        /\ ~IsNil(s.MinItems) => s.msgMinItems = p.msgMinItems
        /\ ~IsNil(s.MaxItems) => s.msgMaxItems = p.msgMaxItems
        /\ ~IsNil(s.MinProperties) => s.msgMinProperties = p.msgMinProperties
        /\ ~IsNil(s.MaxProperties) => s.msgMaxProperties = p.msgMaxProperties
        /\ ~IsNil(s.Required) =>
              \A j \in 1..Len(s.Required[1]) :
                  MsgRequiredGet(s, s.Required[1][j]) = MsgRequiredGet(p, s.Required[1][j])

\* C19: PrecomputeMessages runs on a Schema between every change of its
\* constraint fields (a property added by OnAddOperation, the enum set on
\* an item Schema) and the next Validate that uses it, so that every
\* Schema a Validate call uses has messages that reflect its constraints.
C19_FinalizedBeforeValidate ==
    Ran => \A n \in RunNodes : Reflects(heap[n.sid])

\* the Schema and the registry the goroutines share, as synthesis left them
Finalized ==
    RegistrySchema([heap |-> <<>>, reg |-> <<>>], lastCall.t, FALSE, lastCall.hint, 1)

\* the records of the run of goroutine c when it is made alone
Alone(c) ==
    Validate([heap |-> heap, reg |-> reg, ord |-> runs[c].ord], cur,
             [pb |-> <<>>, errs |-> <<>>, panic |-> FALSE], runs[c].mode, runs[c].value)

\* the goroutines whose Validate call has returned
Validated == {c \in 1..MaxCallers : runs[c].pc = "done"}

OwnAnnotations(s, f) ==
    /\ s.Description = TagGet(f, "doc")
    /\ s.MinLength = intTag(f, "minLength").v
    /\ s.MaxLength = intTag(f, "maxLength").v
    /\ s.Pattern = TagGet(f, "pattern")
    /\ s.ReadOnly = boolTag(f, "readOnly").v
    /\ s.WriteOnly = boolTag(f, "writeOnly").v
    /\ s.Deprecated = boolTag(f, "deprecated").v
    /\ s.Type /= TypeArray =>
          s.Enum = IF TagTokens(f, "enum") = <<>> THEN <<>>
                   ELSE EnumValues(f, f.Type, Split(TagTokens(f, "enum"))).v

\* a Schema no field has left an annotation on
Plain(s) ==
    /\ s.Description = ""
    /\ s.MinLength = <<>>
    /\ s.MaxLength = <<>>
    /\ s.Pattern = ""
    /\ s.Enum = <<>>
    /\ ~s.ReadOnly
    /\ ~s.WriteOnly
    /\ ~s.Deprecated

\* C21: the annotations of a field change only the Schema of that field:
\* in the object Schema of every record type each property Schema carries
\* the annotations of its own field and no other's, two properties never
\* share a Schema object, and the Schema the registry gives for a type on
\* its own (the stored Schema of a record type, the Schema a call returns
\* for any other type) carries no annotation of any field.
C21_FieldAugmentationLocal ==
    /\ \A t \in Stocked :
          LET s == heap[reg[t].schema]
              infos == FieldsOf(t)
          IN  /\ Plain(s)
              /\ \A i \in 1..Len(infos) :
                    Captured(infos, i) =>
                      /\ PropGet(s, FieldName(infos[i].Field)) /= 0
                      /\ OwnAnnotations(heap[PropGet(s, FieldName(infos[i].Field))],
                                        infos[i].Field)
                      /\ \A j \in 1..Len(infos) :
                            (Captured(infos, j) /\ j /= i) =>
                               PropGet(s, FieldName(infos[j].Field))
                                  /= PropGet(s, FieldName(infos[i].Field))
    /\ (fault = NoFault /\ cur /= 0 /\ lastCall.t /= "" /\ ~GetsRef(deref(lastCall.t)))
          => Plain(heap[cur])

\* the record with two string fields and two fields of one record type,
\* annotated differently, is synthesized, and the registry is then asked
\* for the string type on its own
C21_Witness ==
    /\ "Twin" \in Stocked
    /\ "Item" \in Stocked
    /\ lastCall.t = "string"
    /\ cur /= 0
    /\ fault = NoFault

\* C22: a construction fault leaves the registry as it was before the
\* faulting call: unless the program has ended with a stack overflow,
\* every entry of the registry is that of a type whose synthesis has ended
\* and holds its Schema, so no entry is a placeholder left by a call that
\* aborted on a malformed annotation, and neither a later call for the type
\* nor SchemaFromRef gives an empty Schema or none.
C22_FaultLeavesRegistry ==
    fault /= "stack overflow" =>
        \A t \in DOMAIN reg :
            /\ reg[t].done
            /\ reg[t].schema /= 0
            /\ SchemaFromRef(reg, reg[t].ref) /= 0

\* the records a Validate of the last request's schema, mode and value adds
\* when it starts on the PathBuffer b with an empty result
Fresh(b) ==
    UNION { {Validate([heap |-> heap, reg |-> reg, ord |-> ord], lastValidate.schema,
                      [pb |-> b, errs |-> <<>>, panic |-> FALSE],
                      lastValidate.mode, lastValidate.value).errs}
            : ord \in KeyOrders(KeysIn(lastValidate.value)) }

\* C23: when Validate returns, the PathBuffer holds exactly the path it
\* held on entry: after the first Validate of a request it holds the path
\* the request started with, a further Validate on the same PathBuffer
\* without a Reset leaves it as it found it, and the records that Validate
\* adds are those of a Validate started on the request's path, with
\* violations recorded and with a type mismatch at the root or below.
C23_PathRestored ==
    /\ []((nvalidate > 0 /\ ~lastValidate.panic) => pb \in ServePrefixes)
    /\ [][ (nvalidate > 0 /\ nvalidate' = nvalidate + 1 /\ ~lastValidate'.panic)
           => /\ pb' = pb
              /\ Len(res') >= Len(res)
              /\ SubSeq(res', 1, Len(res)) = res
              /\ SubSeq(res', Len(res) + 1, Len(res')) \in Fresh(pb) ]_vars

\* a request that started on a path with a segment has gone through two
\* Validate calls without a Reset, with a type mismatch below the root and
\* an unexpected property recorded
C23_Witness ==
    /\ nvalidate >= 2
    /\ ~lastValidate.panic
    /\ Len(pb) = 1
    /\ \E i \in 1..Len(res) : res[i].location = "body.c.value"
                                /\ res[i].message = "expected string"
    /\ \E i \in 1..Len(res) : res[i].location = "body.x"
                                /\ res[i].message = "unexpected property"

\* does the value out hold the schema URL of the type typ in its first
\* field and every exported field of the value v under its name
Linked(host, typ, v, out) ==
    /\ Len(out.fields) >= 1
    /\ Len(out.names) = Len(out.fields)
    /\ out.names[1] = "Schema"
    /\ out.fields[1] \in {VStr(scheme \o host \o SchemasPath \o "/" \o reg[typ].name \o ".json")
                          : scheme \in {"http://", "https://"}}
    /\ \A i \in 1..Len(GoTypes[typ].Fields) :
          GoTypes[typ].Fields[i].Exported =>
             \E j \in 2..Len(out.names) :
                /\ out.names[j] = GoTypes[typ].Fields[i].Name
                /\ out.fields[j] = v.fields[i]

\* C24: for a response value of a record type that OnAddOperation has
\* registered, Transform returns a value whose first field is the schema
\* URL and that holds every exported field of the input under the same
\* name with the same value, whatever unexported fields the type declares
\* before or between them; nil, a value that is no record and a value of a
\* type that is not registered come back unchanged.
C24_TransformKeepsFields ==
    [][ sent' /= sent =>
          /\ ~sent'.panic
          /\ IF /\ sent'.v.typ /= ""
                /\ Kind(deref(sent'.v.typ)) = "struct"
                /\ deref(sent'.v.typ) \in DOMAIN types
             THEN Linked(sent'.host, deref(sent'.v.typ), sent'.v, sent'.out)
             ELSE sent'.out = sent'.v ]_vars

\* the serialized name of a field as the claim states it: the text before
\* the first comma of the json annotation, or the declared name when there
\* is no annotation or that text is empty
SerializedName(f) ==
    IF TagTokens(f, "json") = <<>> THEN f.Name
    ELSE IF Split(TagTokens(f, "json"))[1] = "" THEN f.Name
    ELSE Split(TagTokens(f, "json"))[1]

\* C25: in the object Schema of every record type, every field that is
\* not left out and whose type has a Schema is a property under its
\* serialized name, which is its declared name when the json annotation
\* holds options only; no property has the empty name, and two fields with
\* different serialized names have different property Schemas.
C25_SerializedName ==
    \A t \in Stocked :
        LET s == heap[reg[t].schema]
            fields == GoTypes[t].Fields
            own == {i \in 1..Len(fields) :
                       /\ fields[i].Exported
                       /\ ~fields[i].Anonymous
                       /\ SerializedName(fields[i]) /= "-"
                       /\ Kind(deref(fields[i].Type)) /= "func"}
        IN  /\ "" \notin PropKeys(s)
            /\ \A i \in own : PropGet(s, SerializedName(fields[i])) /= 0
            /\ \A i, j \in own :
                  SerializedName(fields[i]) /= SerializedName(fields[j])
                     => PropGet(s, SerializedName(fields[i]))
                           /= PropGet(s, SerializedName(fields[j]))

====
